---- MODULE Spec2Model ----
(***************************************************************************)
(* BoonLink Pay: the offline transaction queue (offline/queue.ts with the  *)
(* SQLite storage classes it is shipped with), the mock blockchain and     *)
(* settlement services it drives, as a state machine.  One TLA+ step is    *)
(* one run of JavaScript between two suspension points (awaits).           *)
(***************************************************************************)
EXTENDS Integers, Sequences, FiniteSets, TLC

(* ---------------- bounds of the model ---------------- *)
MaxWork == 6        \* orders saved + queueTransaction calls + processItem runs
MaxRetryRuns == 6   \* processItem runs of the single item of SpecRetry
MaxTime == 10000    \* last clock value (ms)
MaxPayWork == 3     \* getCryptoQuote calls + confirmPayment calls
MaxPayTime == 400000  \* last clock value of the tools (ms)
MaxSyncWork == 3    \* as MaxWork, where the sync manager runs
MaxListeners == 2   \* listeners of the detector
MaxChecks == 3      \* check() rounds of the detector
MaxExchangeWork == 2 \* createQuote calls and clock ticks of the exchange run
MaxSyncs == 2       \* forceSync and cleanupOldOrders calls

(* ---------------- program constants ---------------- *)
maxRetries == 5
initialDelay == 5000
maxDelay == 300000
backoffMultiplier == 2

NULL == 0

\* enum PaymentStatus
PaymentStatus ==
  {"init", "quoted", "signed", "pending", "settled", "completed",
   "expired", "cancelled", "failed", "timeout"}

\* enum NetworkStatus; checkNetwork returns one of these three
ProbeResults == {"online", "weak", "offline"}

OrderIds == {<<"order", n>> : n \in 1..MaxWork}

VARIABLES
  orders,         \* table orders: set of OrderRow
  queue,          \* table offline_queue: set of queue rows
  networkStatus,  \* OfflineQueueManager.networkStatus
  isProcessing,   \* OfflineQueueManager.isProcessing
  drain,          \* the processQueue call in flight: its items and position
  now,            \* Date.now()
  chain,          \* broadcast calls made so far: <<[signedTx, txHash]>>
  settlements,    \* MockSettlementService.settlements plus the order settled
  enqueued,       \* number of queue items created so far (uuid source)
  attempts,       \* number of processItem runs so far
  writes,         \* the changes of stored order status the last step made
  maxAmountTHB,   \* the maxAmountTHB of the config given to initBoonLink
  lastQuote,      \* the last getCryptoQuote call: parameters and result
  quoteStore,     \* confirm-pay.ts quoteStore: the quotes stored
  orderStore,     \* confirm-pay.ts orderStore: the orders stored
  calls,          \* the confirmPayment calls: position and result of each
  sent,           \* broadcastTransaction calls made by confirmPayment
  sync,           \* NetworkSyncManager: its last forceSync / cleanupOldOrders
  detector,       \* NetworkStatusDetector: status, listeners, last check
  qr,             \* the last generatePromptPayPayload / parsePromptPayQR call
  scan,           \* the last scanPromptPayQR call
  auth,           \* the last verifyOfflinePayment call
  exchange        \* the last createQuote call of an exchange service

\* the state of the tools (get_quote, confirm_payment) and of the sync manager
toolVars == <<maxAmountTHB, lastQuote, quoteStore, orderStore, calls, sent>>

\* the state of the detector and the last calls of the pure services
serviceVars == <<detector, qr, scan, auth, exchange>>

vars == <<orders, queue, networkStatus, isProcessing, drain, now, chain,
          settlements, enqueued, attempts, writes, toolVars, sync,
          serviceVars>>

(* ---------------- storage ---------------- *)

\* OrderStorage.save as createOrder calls it: a fresh order in QUOTED
NewOrderRow(id, t) ==
  [id |-> id, status |-> "quoted", signature_json |-> NULL, tx_hash |-> NULL,
   settlement_id |-> NULL, error |-> <<>>, created_at |-> t,
   completed_at |-> NULL]

OrderRowOf(tbl, id) == CHOOSE r \in tbl : r.id = id

HasOrder(tbl, id) == \E r \in tbl : r.id = id

\* the in-memory PaymentOrder of a stored row (OrderStorage.get)
rowToOrder(r) ==
  [id |-> r.id, status |-> r.status, signature |-> r.signature_json,
   txHash |-> r.tx_hash, settlementId |-> r.settlement_id, error |-> r.error,
   createdAt |-> r.created_at, completedAt |-> r.completed_at]

\* OrderStorage.update: UPDATE orders SET ... WHERE id = order.id
update(tbl, order) ==
  {IF r.id = order.id
     THEN [r EXCEPT !.status = order.status,
                    !.signature_json = order.signature,
                    !.tx_hash = order.txHash,
                    !.settlement_id = order.settlementId,
                    !.error = order.error,
                    !.completed_at = order.completedAt]
     ELSE r : r \in tbl}

\* QueueStorage.enqueue: INSERT INTO offline_queue
enqueue(q, item) ==
  q \cup {[id |-> item.id, order_id |-> item.order.id,
           signed_tx |-> item.signedTx, retry_count |-> item.retryCount,
           last_retry |-> item.lastRetry, next_retry |-> item.nextRetry,
           created_at |-> item.createdAt]}

\* QueueStorage.dequeue: DELETE FROM offline_queue WHERE id = ?
dequeue(q, id) == {r \in q : r.id # id}

\* QueueStorage.updateRetry: UPDATE offline_queue SET ... WHERE id = ?
updateRetry(q, id, retryCount, nextRetry, t) ==
  {IF r.id = id
     THEN [r EXCEPT !.retry_count = retryCount, !.last_retry = t,
                    !.next_retry = nextRetry]
     ELSE r : r \in q}

\* one result row of SELECT q.*, o.* FROM offline_queue q JOIN orders o: the
\* driver returns a JavaScript object keyed by column name, so a column of
\* orders replaces the offline_queue column of the same name (id, created_at)
JoinRow(q, o) ==
  [c \in (DOMAIN q) \cup (DOMAIN o) |-> IF c \in DOMAIN o THEN o[c] ELSE q[c]]

\* QueueStorage.rowToItem: error and completedAt are not copied, and
\* row.queue_created_at is never selected, so createdAt is row.created_at
rowToItem(row) ==
  [id |-> row.id,
   order |-> [id |-> row.order_id, status |-> row.status,
              signature |-> row.signature_json, txHash |-> row.tx_hash,
              settlementId |-> row.settlement_id, error |-> <<>>,
              createdAt |-> row.created_at, completedAt |-> NULL],
   signedTx |-> row.signed_tx,
   retryCount |-> row.retry_count,
   lastRetry |-> row.last_retry,
   nextRetry |-> row.next_retry,
   createdAt |-> row.created_at]

\* WHERE q.next_retry IS NULL OR q.next_retry <= ?
IsReady(r, t) == r.next_retry = NULL \/ r.next_retry <= t

\* the rows the WHERE clause of getReadyItems keeps (the JOIN drops rows
\* without an order)
ReadyRows(q, tbl, t) == {r \in q : HasOrder(tbl, r.order_id) /\ IsReady(r, t)}

\* the listings of S in any order
RECURSIVE OrderByCreatedAt_Unordered(_)
OrderByCreatedAt_Unordered(S) ==
  IF S = {}
    THEN {<<>>}
    ELSE UNION {{<<r>> \o s : s \in OrderByCreatedAt_Unordered(S \ {r})} :
                  r \in S}

\* ORDER BY q.created_at ASC: the listings of S in non-decreasing created_at,
\* each starting with a row of least created_at (SQL leaves the order of
\* equal keys open)
RECURSIVE OrderByCreatedAt(_)
OrderByCreatedAt(S) ==
  IF S = {}
    THEN {<<>>}
    ELSE UNION {{<<r>> \o s : s \in OrderByCreatedAt(S \ {r})} :
                  r \in {x \in S : \A y \in S : x.created_at <= y.created_at}}

\* QueueStorage.getReadyItems: the possible result lists, as the queue rows
\* they come from
getReadyItems(q, tbl, t) == OrderByCreatedAt(ReadyRows(q, tbl, t))

\* rows.map(row => this.rowToItem(row)) over the joined rows
ItemsOf(rows, tbl) ==
  [i \in 1..Len(rows) |->
     rowToItem(JoinRow(rows[i], OrderRowOf(tbl, rows[i].order_id)))]

(* ---------------- services ---------------- *)

\* the signed transaction a wallet produces for an order's transfer
SignedTxOf(id) == id[2]

\* MockBlockchainService.broadcastTransaction: a new random hash per call
NewTxHash(ch) == Len(ch) + 1

\* MockSettlementService.settle: const settlementId = uuidv4()
NewSettlementId(st) == Cardinality(st) + 1

(* ---------------- the queue manager ---------------- *)

Idle ==
  [pc |-> "idle", rows |-> <<>>, items |-> <<>>, idx |-> 0, startedAt |-> 0]

\* the status change a write of order o makes to the stored row, if any
Writes(tbl, o) ==
  IF HasOrder(tbl, o.id) /\ OrderRowOf(tbl, o.id).status # o.status
    THEN <<[order |-> o.id, from |-> OrderRowOf(tbl, o.id).status,
            to |-> o.status]>>
    ELSE <<>>

\* end of a step: the new tables, the drain position, the status changes
\* made and the number of items started
Commit(ord, q, dr, proc, w, st) ==
  /\ orders' = ord
  /\ queue' = q
  /\ drain' = dr
  /\ isProcessing' = proc
  /\ writes' = w
  /\ attempts' = attempts + st
  /\ UNCHANGED <<toolVars, sync,
                 serviceVars>>

\* the loop without its check of the network status between items
RunLoop_NoRecheck(net, dr, ord, q, w) ==
  IF dr.items = <<>>
    THEN Commit(ord, q, Idle, FALSE, w, 0)
    ELSE LET o1 == [Head(dr.items).order EXCEPT !.status = "pending"]
         IN Commit(update(ord, o1), q,
                   [dr EXCEPT !.pc = "broadcast", !.idx = @ + 1,
                              !.items[1].order = o1],
                   TRUE, w \o Writes(ord, o1), 1)

\* the for loop of processQueue at the head of the items still to run (dr.idx
\* of the rows were run before): it runs processItem up to its first await
\* (broadcastTransaction), or leaves through finally
RunLoop(net, dr, ord, q, w) ==
  IF dr.items = <<>> \/ net \notin {"online", "weak"}
    THEN Commit(ord, q, Idle, FALSE, w, 0)
    ELSE LET o1 == [Head(dr.items).order EXCEPT !.status = "pending"]
         IN Commit(update(ord, o1), q,
                   [dr EXCEPT !.pc = "broadcast", !.idx = @ + 1,
                              !.items[1].order = o1],
                   TRUE, w \o Writes(ord, o1), 1)

\* processQueue without its isProcessing gate
processQueue_NoGate(net, ord, q, w) ==
  IF net = "offline"
    THEN Commit(ord, q, drain, isProcessing, w, 0)
    ELSE \E rows \in getReadyItems(q, ord, now) :
           RunLoop(net, [pc |-> "idle", rows |-> rows,
                         items |-> ItemsOf(rows, ord), idx |-> 0,
                         startedAt |-> now],
                   ord, q, w)

\* OfflineQueueManager.processQueue, called with the tables as the caller
\* left them
processQueue(net, ord, q, w) ==
  IF isProcessing \/ net = "offline"
    THEN Commit(ord, q, drain, isProcessing, w, 0)
    ELSE \E rows \in getReadyItems(q, ord, now) :
           RunLoop(net, [pc |-> "idle", rows |-> rows,
                         items |-> ItemsOf(rows, ord), idx |-> 0,
                         startedAt |-> now],
                   ord, q, w)

RECURSIVE Pow(_, _)
Pow(b, e) == IF e = 0 THEN 1 ELSE b * Pow(b, e - 1)

Min(a, b) == IF a <= b THEN a ELSE b

\* the delay of scheduleRetry after retryCount was incremented to rc
RetryDelay(rc) == Min(initialDelay * Pow(backoffMultiplier, rc - 1), maxDelay)

\* OfflineQueueManager.scheduleRetry: the tables and status writes it leaves
scheduleRetry(item, reason, ord, q, t) ==
  LET rc == item.retryCount + 1 IN
  IF rc >= maxRetries
    THEN LET o1 == [item.order EXCEPT !.status = "failed",
                       !.error = <<"Max retries exceeded: ", reason>>]
         IN [orders |-> update(ord, o1), queue |-> dequeue(q, item.id),
             writes |-> Writes(ord, o1)]
    ELSE [orders |-> ord,
          queue |-> updateRetry(q, item.id, rc, t + RetryDelay(rc), t),
          writes |-> <<>>]

\* the item processItem is running, and the loop once it has returned
Item == Head(drain.items)
Rest == [drain EXCEPT !.items = Tail(@)]

(* ---------------- tools: get_quote and confirm_payment ---------------- *)

\* get-quote.ts DEFAULT_CONFIG.maxAmountTHB, which validateQuoteParams reads
DEFAULT_maxAmountTHB == 10000

\* exchange.ts QUOTE_VALIDITY_MS = 3 * 60 * 1000
QUOTE_VALIDITY_MS == 180000

SupportedTokens == {"USDT", "USDC", "ETH"}

\* exchange.ts MOCK_RATES, in tenths of a baht per token
MOCK_RATES == [USDT |-> 355, USDC |-> 355, ETH |-> 1200000]

\* exchange.ts NETWORK_FEE_ESTIMATES, in baht
NETWORK_FEE_ESTIMATES == [USDT |-> 5, USDC |-> 5, ETH |-> 15]

\* get-quote.ts validateQuoteParams: the error it returns, "" for null
validateQuoteParams(params) ==
  IF params.amountTHB <= 0
    THEN "Amount must be greater than 0"
  ELSE IF params.amountTHB > DEFAULT_maxAmountTHB
    THEN "Amount exceeds maximum limit"
  ELSE IF params.token \notin {"USDT", "USDC", "ETH"}
    THEN "Unsupported token"
  ELSE IF params.accountId = ""
    THEN "PromptPay account information is required"
  ELSE ""

\* MockExchangeService.createQuote at time t with uuid n; crypto amounts are
\* in 1/1000 token, truncated, at the mock rate without its random variance
createQuote(amountTHB, token, accountId, n, t) ==
  LET amountCrypto == (amountTHB * 10000) \div MOCK_RATES[token]
      networkFee == (NETWORK_FEE_ESTIMATES[token] * 10000) \div MOCK_RATES[token]
      serviceFee == (amountCrypto * 5) \div 1000
  IN [id |-> <<"quote", n>>, amountTHB |-> amountTHB, token |-> token,
      amountCrypto |-> amountCrypto + networkFee + serviceFee,
      accountId |-> accountId, createdAt |-> t,
      expiresAt |-> t + QUOTE_VALIDITY_MS]

\* no getCryptoQuote call made yet
NoQuote ==
  [seq |-> 0, params |-> <<>>, success |-> FALSE, error |-> "",
   quote |-> <<>>, created |-> 0]

\* a confirmPayment call that has not been made
NoCall ==
  [pc |-> "idle", quoteId |-> <<>>, quote |-> <<>>, order |-> <<>>,
   balance |-> <<>>, success |-> FALSE, error |-> ""]

\* confirm-pay.ts createOrder: the order stored for quote q at time t
createOrder(q, n, t) ==
  [id |-> <<"pay", n>>, status |-> "quoted", quoteId |-> q.id,
   signature |-> NULL, txHash |-> NULL, settlementId |-> NULL, error |-> "",
   createdAt |-> t, completedAt |-> NULL]

\* the stored order of call c; orderStore keeps the object the call mutates
OrderOf(c) == CHOOSE o \in orderStore : o.id = calls[c].order

\* an assignment to fields of the order of call c (seen through orderStore at
\* once, as the Map holds the same object), and updateOrder where it follows
Mutate(c, o1) == orderStore' = (orderStore \ {OrderOf(c)}) \cup {o1}

\* confirmPayment returns
Return(c, success, error) ==
  calls' = [calls EXCEPT ![c].pc = "returned", ![c].success = success,
                         ![c].error = error]

\* confirmPayment goes on to its next await
Await(c, pc) == calls' = [calls EXCEPT ![c].pc = pc]

(* ---------------- the sync manager ---------------- *)

\* NetworkSyncManager after construction, no forceSync made
\* (last: the call made last; result, nested: what it and a forceSync made by
\* a listener inside it returned; refused: the refusals returned so far)
NoSync ==
  [isSyncing |-> FALSE, lastSyncTime |-> NULL, runs |-> 0, last |-> "",
   events |-> <<>>, result |-> <<>>, nested |-> <<>>, refused |-> {},
   cleaned |-> <<>>]

\* QueueStorage.getAll: the queue rows joined with their orders
getAll(q, tbl) == {r \in q : HasOrder(tbl, r.order_id)}

\* QueueStorage.getStats at time t
getStats(q, t) ==
  LET total == Cardinality(q)
      pending == Cardinality({r \in q : IsReady(r, t)})
  IN [pending |-> pending, failed |-> total - pending - 0]

\* the value forceSync returns when it refuses
Refusal(error) ==
  [success |-> FALSE, synced |-> 0, failed |-> 0, error |-> error]

\* forceSync entry without the test of the network status
forceSyncEntry_NoOfflineCheck(isSyncing, net) ==
  IF isSyncing THEN <<Refusal("Sync already in progress")>>
  ELSE <<>>

\* NetworkSyncManager.forceSync up to this.isSyncing = true: the refusal it
\* returns, if any
forceSyncEntry(isSyncing, net) ==
  IF isSyncing THEN <<Refusal("Sync already in progress")>>
  ELSE IF net = "offline" THEN <<Refusal("Network offline")>>
  ELSE <<>>

\* the sync_progress events of a loop over total items, from the i-th on
RECURSIVE Progress(_, _)
Progress(i, total) ==
  IF i > total THEN <<>>
  ELSE <<[type |-> "sync_progress", total |-> total, processed |-> i,
          failed |-> 0]>> \o Progress(i + 1, total)

\* NetworkSyncManager.forceSync, whole (it has no await), with one listener
\* subscribed: "quiet" only listens, "reenters" calls forceSync when it gets
\* sync_started, "throws" throws on every event but sync_failed,
\* "throwsAlways" on every event (the call then ends by the exception),
\* "throwsOnCompleted" on sync_completed only
forceSync(s, net, q, tbl, t, listener) ==
  LET refusal == forceSyncEntry(s.isSyncing, net)
      total == Cardinality(getAll(q, tbl))
      started == [type |-> "sync_started", total |-> total, processed |-> 0,
                  failed |-> 0]
      nested == IF listener = "reenters" THEN forceSyncEntry(TRUE, net)
                ELSE <<>>
      stats == getStats(q, t)
      synced == total - stats.pending - stats.failed
      failed == stats.failed
      called == [s EXCEPT !.runs = @ + 1, !.last = "forceSync",
                          !.events = <<>>, !.result = <<>>, !.nested = <<>>,
                          !.cleaned = <<>>]
  IN IF refusal # <<>>
       THEN [called EXCEPT !.result = refusal,
                           !.refused = @ \cup {refusal[1].error}]
     ELSE IF listener \in {"throws", "throwsAlways"}
       THEN [called EXCEPT
               !.events = <<started, [type |-> "sync_failed", total |-> 0,
                                      processed |-> 0, failed |-> 0]>>,
               !.result = IF listener = "throws"
                            THEN <<[success |-> FALSE, synced |-> 0,
                                    failed |-> 0, error |-> "listener"]>>
                            ELSE <<>>,
               !.isSyncing = FALSE]
     ELSE IF listener = "throwsOnCompleted"
       THEN [called EXCEPT
               !.events = <<started>> \o Progress(1, total) \o
                          <<[type |-> "sync_completed", total |-> total,
                             processed |-> synced, failed |-> failed],
                            [type |-> "sync_failed", total |-> 0,
                             processed |-> 0, failed |-> 0]>>,
               !.result = <<[success |-> FALSE, synced |-> synced,
                             failed |-> failed, error |-> "listener"]>>,
               !.lastSyncTime = t,
               !.isSyncing = FALSE]
     ELSE [called EXCEPT
             !.events = <<started>> \o Progress(1, total) \o
                        <<[type |-> "sync_completed", total |-> total,
                           processed |-> synced, failed |-> failed]>>,
             !.result = <<[success |-> TRUE, synced |-> synced,
                           failed |-> failed, error |-> ""]>>,
             !.nested = nested,
             !.refused = @ \cup {nested[i].error : i \in 1..Len(nested)},
             !.lastSyncTime = t,
             !.isSyncing = FALSE]

\* NetworkSyncManager.cleanupOldOrders(olderThanDays): the number it returns
cleanupOldOrders(tbl, t, olderThanDays) ==
  LET cutoffTime == t - olderThanDays * 24 * 60 * 60 * 1000
  IN Cardinality({o \in tbl : /\ o.status = "completed"
                              /\ o.completed_at # NULL
                              /\ o.completed_at < cutoffTime})

(* ---------------- strings ---------------- *)

\* a string is a sequence of one-character strings
DigitChars == <<"0", "1", "2", "3", "4", "5", "6", "7", "8", "9">>
UpperHex == <<"A", "B", "C", "D", "E", "F">>
LowerHex == <<"a", "b", "c", "d", "e", "f">>

IsDigit(c) == \E i \in 1..10 : DigitChars[i] = c
DigitValue(c) == (CHOOSE i \in 1..10 : DigitChars[i] = c) - 1

\* String.prototype.toUpperCase on one character
ToUpperChar(c) ==
  IF \E i \in 1..6 : LowerHex[i] = c
    THEN UpperHex[CHOOSE i \in 1..6 : LowerHex[i] = c]
    ELSE c

toUpperCase(str) == [i \in 1..Len(str) |-> ToUpperChar(str[i])]

\* the UTF-8 byte of a character
CharCode(c) ==
  IF IsDigit(c) THEN 48 + DigitValue(c)
  ELSE IF \E i \in 1..6 : UpperHex[i] = c
    THEN 64 + (CHOOSE i \in 1..6 : UpperHex[i] = c)
  ELSE IF \E i \in 1..6 : LowerHex[i] = c
    THEN 96 + (CHOOSE i \in 1..6 : LowerHex[i] = c)
  ELSE CASE c = "T" -> 84
         [] c = "H" -> 72
         [] c = "X" -> 88
         [] c = "." -> 46
         [] c = "-" -> 45
         [] c = " " -> 32
         [] c = ":" -> 58
         [] c = "/" -> 47
         [] OTHER -> 63

Clamp(n, len) == IF n < 0 THEN 0 ELSE IF n > len THEN len ELSE n

\* String.prototype.substring(start, end): both clamped to the string,
\* swapped when start > end (a NaN argument is passed as 0)
substring(str, start, end) ==
  LET a == Clamp(start, Len(str))
      b == Clamp(end, Len(str))
  IN IF a <= b THEN SubSeq(str, a + 1, b) ELSE SubSeq(str, b + 1, a)

\* String.prototype.slice(start) for start >= 0
sliceFrom(str, start) == SubSeq(str, Clamp(start, Len(str)) + 1, Len(str))

startsWith(str, prefix) ==
  Len(str) >= Len(prefix) /\ SubSeq(str, 1, Len(prefix)) = prefix

\* the value of the leading decimal digits of a string, most significant first
RECURSIVE DigitsValue(_, _)
DigitsValue(str, acc) ==
  IF str = <<>> \/ ~IsDigit(Head(str)) THEN acc
  ELSE DigitsValue(Tail(str), 10 * acc + DigitValue(Head(str)))

\* parseInt(str, 10) of a string without white space: <<n>>, or <<>> for NaN
parseInt(str) ==
  LET signed == str # <<>> /\ Head(str) \in {"-", "+"}
      body == IF signed THEN Tail(str) ELSE str
  IN IF body = <<>> \/ ~IsDigit(Head(body)) THEN <<>>
     ELSE IF signed /\ Head(str) = "-" THEN <<0 - DigitsValue(body, 0)>>
     ELSE <<DigitsValue(body, 0)>>

\* Number.prototype.toString() of a natural number
RECURSIVE toString(_)
toString(n) ==
  IF n < 10 THEN <<DigitChars[n + 1]>>
  ELSE toString(n \div 10) \o <<DigitChars[(n % 10) + 1]>>

\* str.padStart(len, '0')
RECURSIVE padStart(_, _)
padStart(str, len) ==
  IF Len(str) >= len THEN str ELSE padStart(<<"0">> \o str, len)

\* str.padEnd(len, '0')
RECURSIVE padEnd(_, _)
padEnd(str, len) ==
  IF Len(str) >= len THEN str ELSE padEnd(str \o <<"0">>, len)

\* the longest prefix of decimal digits, and what follows it
RECURSIVE LeadingDigits(_)
LeadingDigits(str) ==
  IF str = <<>> \/ ~IsDigit(Head(str)) THEN <<>>
  ELSE <<Head(str)>> \o LeadingDigits(Tail(str))

RECURSIVE StripLeadingZeros(_)
StripLeadingZeros(str) ==
  IF str # <<>> /\ Head(str) = "0" THEN StripLeadingZeros(Tail(str)) ELSE str

RECURSIVE StripTrailingZeros(_)
StripTrailingZeros(str) ==
  IF str # <<>> /\ str[Len(str)] = "0"
    THEN StripTrailingZeros(SubSeq(str, 1, Len(str) - 1))
    ELSE str

\* a non-negative decimal number: its integer digits without leading zeros
\* and its fraction digits without trailing zeros
Decimal(int, frac) ==
  [int |-> StripLeadingZeros(int), frac |-> StripTrailingZeros(frac)]

\* parseFloat(str) of a string without white space, sign or exponent: the
\* number of its longest numeric prefix, <<>> for NaN
parseFloat(str) ==
  LET int == LeadingDigits(str)
      rest == SubSeq(str, Len(int) + 1, Len(str))
      frac == IF rest # <<>> /\ Head(rest) = "."
                THEN LeadingDigits(Tail(rest)) ELSE <<>>
  IN IF int = <<>> /\ frac = <<>> THEN <<>> ELSE <<Decimal(int, frac)>>

\* amount.toFixed(2) of a number with at most two decimals
toFixed2(amount) ==
  (IF amount.int = <<>> THEN <<"0">> ELSE amount.int) \o <<".">> \o
  padEnd(amount.frac, 2)

(* ---------------- CRC ---------------- *)

\* bitwise exclusive or of two naturals
RECURSIVE Xor(_, _)
Xor(a, b) ==
  IF a = 0 THEN b
  ELSE IF b = 0 THEN a
  ELSE ((a + b) % 2) + 2 * Xor(a \div 2, b \div 2)

\* one shift of the CRC register, polynomial 0x1021, 16 bits wide
RECURSIVE CrcShift(_, _)
CrcShift(crc, n) ==
  IF n = 0 THEN crc
  ELSE IF crc >= 32768
    THEN CrcShift(Xor((2 * crc) % 65536, 4129), n - 1)
    ELSE CrcShift((2 * crc) % 65536, n - 1)

\* the table of the byte-wise algorithm
CrcTable == [b \in 0..255 |-> CrcShift(256 * b, 8)]

\* crc16ccitt(Buffer.from(str, 'utf8')) continued from register crc
RECURSIVE Crc16From(_, _)
Crc16From(str, crc) ==
  IF str = <<>> \/ crc > 65535 THEN crc
  ELSE Crc16From(Tail(str),
                 Xor(CrcTable[Xor(crc \div 256, CharCode(Head(str)))],
                     (crc % 256) * 256))

\* crc16ccitt of the crc package: CRC-16/CCITT-FALSE, initial value 0xFFFF
crc16ccitt(str) == Crc16From(str, 65535)

HexChars == DigitChars \o UpperHex

\* n.toString(16).toUpperCase()
RECURSIVE toHexUpper(_)
toHexUpper(n) ==
  IF n < 16 THEN <<HexChars[n + 1]>>
  ELSE toHexUpper(n \div 16) \o <<HexChars[(n % 16) + 1]>>

(* ---------------- PromptPay QR codec ---------------- *)

PROMPTPAY_AID == <<"A", "0", "0", "0", "0", "0", "0", "6", "7", "7", "0", "1", "0", "1", "1", "1">>

\* the entry of a Map for a key: <<value>>, or <<>> when the key is absent
MapGet(map, key) ==
  LET hits == {i \in 1..Len(map) : map[i].key = key}
  IN IF hits = {} THEN <<>>
     ELSE <<map[CHOOSE i \in hits : \A j \in hits : j <= i].value>>

\* map.get(key) || undefined: <<value>> when present and not empty
Truthy(v) == IF v # <<>> /\ v[1] # <<>> THEN v ELSE <<>>

\* promptpay.ts parseTLV from a position on (visited: the positions the loop
\* was at before; the loop never ends when it comes back to one)
RECURSIVE parseTLVFrom(_, _, _, _)
parseTLVFrom(data, position, result, visited) ==
  IF ~(position < Len(data)) THEN [fields |-> result, returns |-> TRUE]
  ELSE IF position \in visited THEN [fields |-> result, returns |-> FALSE]
  ELSE LET tag == substring(data, position, position + 2)
           length == parseInt(substring(data, position + 2, position + 4))
       IN IF length = <<>>
            THEN [fields |-> Append(result,
                               [key |-> tag,
                                value |-> substring(data, position + 4, 0)]),
                  returns |-> TRUE]
            ELSE parseTLVFrom(
                   data, position + 4 + length[1],
                   Append(result,
                          [key |-> tag,
                           value |-> substring(data, position + 4,
                                               position + 4 + length[1])]),
                   visited \cup {position})

parseTLV(data) == parseTLVFrom(data, 0, <<>>, {})

\* validateCRC without the comparison of the last character of the CRC
validateCRC_ThreeChars(payload) ==
  LET dataWithoutCRC == SubSeq(payload, 1, Len(payload) - 4)
      providedCRC == toUpperCase(SubSeq(payload, Len(payload) - 3,
                                        Len(payload) - 1))
      calculated == padStart(toHexUpper(crc16ccitt(dataWithoutCRC)), 4)
  IN SubSeq(calculated, 1, 3) = providedCRC

\* promptpay.ts validateCRC
validateCRC(payload) ==
  LET dataWithoutCRC == SubSeq(payload, 1, Len(payload) - 4)
      providedCRC == toUpperCase(SubSeq(payload, Len(payload) - 3,
                                        Len(payload)))
      calculated == padStart(toHexUpper(crc16ccitt(dataWithoutCRC)), 4)
  IN calculated = providedCRC

\* promptpay.ts extractPromptPayAccount: <<account>>, <<>> for null
extractPromptPayAccount(merchantInfo) ==
  LET fields == parseTLV(merchantInfo).fields
      aid == MapGet(fields, <<"0", "0">>)
      phoneOrId == IF Truthy(MapGet(fields, <<"0", "1">>)) # <<>>
                     THEN MapGet(fields, <<"0", "1">>)
                     ELSE Truthy(MapGet(fields, <<"0", "2">>))
      accountId == IF startsWith(phoneOrId[1], <<"0", "0">>)
                     THEN sliceFrom(phoneOrId[1], 4)
                     ELSE phoneOrId[1]
  IN IF aid # <<PROMPTPAY_AID>> THEN <<>>
     ELSE IF phoneOrId = <<>> THEN <<>>
     ELSE IF Len(accountId) = 13
       THEN <<[accountId |-> accountId, accountType |-> "national_id"]>>
     ELSE IF Len(accountId) = 9
       THEN <<[accountId |-> <<"0">> \o accountId, accountType |-> "phone"]>>
     ELSE <<[accountId |-> accountId, accountType |-> "phone"]>>

QRFailure(error) == [returns |-> TRUE, success |-> FALSE, error |-> error,
                     data |-> <<>>]

MIN_PAYLOAD_LENGTH == 20

\* promptpay.ts parsePromptPayQR
parsePromptPayQR(payload) ==
  LET cleanPayload == SelectSeq(payload, LAMBDA c : c # " ")
      isValidCRC == validateCRC(cleanPayload)
      tlv == parseTLV(cleanPayload)
      fields == tlv.fields
      payloadFormat == MapGet(fields, <<"0", "0">>)
      merchantInfo == IF Truthy(MapGet(fields, <<"2", "9">>)) # <<>>
                        THEN MapGet(fields, <<"2", "9">>)
                        ELSE Truthy(MapGet(fields, <<"3", "0">>))
      account == extractPromptPayAccount(merchantInfo[1])
      amountStr == Truthy(MapGet(fields, <<"5", "4">>))
      amount == IF amountStr # <<>>
                  THEN (IF parseFloat(amountStr[1]) = <<>> THEN <<"NaN">>
                        ELSE parseFloat(amountStr[1]))
                  ELSE <<>>
      currency == IF Truthy(MapGet(fields, <<"5", "3">>)) # <<>>
                    THEN MapGet(fields, <<"5", "3">>)[1]
                    ELSE <<"7", "6", "4">>
      country == IF Truthy(MapGet(fields, <<"5", "8">>)) # <<>>
                   THEN MapGet(fields, <<"5", "8">>)[1]
                   ELSE <<"T", "H">>
  IN IF Len(cleanPayload) < MIN_PAYLOAD_LENGTH
       THEN QRFailure("Invalid QR payload: too short")
     ELSE IF ~tlv.returns
       THEN [returns |-> FALSE, success |-> FALSE, error |-> "",
             data |-> <<>>]
     ELSE IF payloadFormat # <<<<"0", "1">>>>
       THEN QRFailure("Unsupported payload format")
     ELSE IF merchantInfo = <<>>
       THEN QRFailure("No PromptPay account information found")
     ELSE IF ~parseTLV(merchantInfo[1]).returns
       THEN [returns |-> FALSE, success |-> FALSE, error |-> "",
             data |-> <<>>]
     ELSE IF account = <<>>
       THEN QRFailure("Invalid PromptPay account format")
     ELSE [returns |-> TRUE, success |-> TRUE, error |-> "",
           data |-> <<[accountId |-> account[1].accountId,
                       accountType |-> account[1].accountType,
                       merchantName |-> MapGet(fields, <<"5", "9">>),
                       amount |-> amount,
                       currency |-> currency,
                       country |-> country,
                       rawPayload |-> cleanPayload,
                       isValid |-> isValidCRC]>>]

\* a TLV record: tag, length padded to two digits, value
Record(tag, value) == tag \o padStart(toString(Len(value)), 2) \o value

\* promptpay.ts generatePromptPayPayload(accountId, amount?); amount is <<>>
\* when not given, and a zero amount is falsy
generatePromptPayPayload(accountId, amount) ==
  LET isPhone == Len(accountId) <= 10
      formattedId == IF isPhone
                       THEN <<"0", "0", "6", "6">> \o
                            (IF startsWith(accountId, <<"0">>)
                               THEN sliceFrom(accountId, 1) ELSE accountId)
                       ELSE <<"0", "0", "T", "H">> \o accountId
      aidField == Record(<<"0", "0">>, PROMPTPAY_AID)
      idField == Record(<<"0", "1">>, formattedId)
      merchantInfoField == Record(<<"2", "9">>, aidField \o idField)
      hasAmount == amount # <<>> /\ amount[1] # Decimal(<<>>, <<>>)
      payload == <<"0", "0", "0", "2", "0", "1">> \o
                 (IF hasAmount THEN <<"0", "1", "0", "2", "1", "2">>
                  ELSE <<"0", "1", "0", "2", "1", "1">>) \o
                 merchantInfoField \o
                 <<"5", "3", "0", "3", "7", "6", "4">> \o
                 (IF hasAmount THEN Record(<<"5", "4">>, toFixed2(amount[1]))
                  ELSE <<>>) \o
                 <<"5", "8", "0", "2", "T", "H">> \o
                 <<"6", "3", "0", "4">>
  IN payload \o padStart(toHexUpper(crc16ccitt(payload)), 4)

(* ---------------- the network status detector ---------------- *)

\* NetworkStatusDetector after construction (checks: check() calls done;
\* results: what the pings of the last check settled to; notified: the
\* listener calls of the last check, in order)
NoDetector ==
  [status |-> "online", listeners |-> <<>>, checks |-> 0, results |-> <<>>,
   computed |-> "", notified |-> <<>>]

\* the three endpoints the detector pings
Endpoints == 3

\* what a pingEndpoint promise settles to: <<>> when it rejects, <<ms>> when
\* it fulfils. The latencies are multiples of 6, so that the division of
\* their sum by 1, 2 or 3 successes is exact
Latencies == {600, 1800, 2400}
PingResults == {<<>>} \cup {<<ms>> : ms \in Latencies}

\* results.filter((r) => r.status === 'fulfilled').length
successCountOf(results) ==
  Cardinality({e \in DOMAIN results : results[e] # <<>>})

\* .reduce((sum, r) => sum + r.value, 0) over the fulfilled results from e on
RECURSIVE SumLatency(_, _)
SumLatency(results, e) ==
  IF e > Len(results) THEN 0
  ELSE (IF results[e] = <<>> THEN 0 ELSE results[e][1])
       + SumLatency(results, e + 1)

\* the sum of the fulfilled values / (successCount || 1)
avgLatencyOf(results) ==
  LET successCount == successCountOf(results)
  IN SumLatency(results, 1)
       \div (IF successCount = 0 THEN 1 ELSE successCount)

\* the status computed without the test of the latency
ComputeStatus_NoLatency(successCount, avgLatency) ==
  IF successCount = 0 THEN "offline"
  ELSE IF 2 * successCount < Endpoints THEN "weak"
  ELSE "online"

\* NetworkStatusDetector.check: the status it computes from the settled pings
ComputeStatus(successCount, avgLatency) ==
  IF successCount = 0 THEN "offline"
  ELSE IF 2 * successCount < Endpoints \/ avgLatency > 2000 THEN "weak"
  ELSE "online"

\* this.listeners.forEach((listener) => listener(newStatus)): the calls made,
\* in insertion order, up to the first listener that throws
RECURSIVE Notify(_, _)
Notify(ls, newStatus) ==
  IF ls = <<>> THEN <<>>
  ELSE <<[listener |-> Head(ls).id, args |-> <<newStatus>>]>> \o
       (IF Head(ls).kind = "throws" THEN <<>>
        ELSE Notify(Tail(ls), newStatus))

\* Set.delete: the listeners without listener l
RECURSIVE Delete(_, _)
Delete(ls, l) ==
  IF ls = <<>> THEN <<>>
  ELSE IF Head(ls).id = l THEN Tail(ls)
  ELSE <<Head(ls)>> \o Delete(Tail(ls), l)

\* no payload generated or parsed yet (tamper: what was done to the generated
\* payload; result: <<what parsePromptPayQR returned for the payload>>)
NoQR ==
  [accountId |-> <<>>, amount |-> <<>>, payload |-> <<>>, tamper |-> "none",
   result |-> <<>>]

\* no scanPromptPayQR call made yet
NoScan == [imageUrl |-> <<>>, fetched |-> FALSE, result |-> <<>>]
\* no verifyOfflinePayment call made yet (recovered: what
\* ethers.verifyTypedData does for the signature; result: <<what the call
\* did>>)
NoAuth ==
  [deadline |-> 0, nowMs |-> 0, claimedSigner |-> <<>>,
   recovered |-> [throws |-> FALSE, address |-> <<>>], result |-> <<>>]

\* String.prototype.toLowerCase on the characters of an address
ToLowerChar(c) ==
  IF \E i \in 1..6 : UpperHex[i] = c
    THEN LowerHex[CHOOSE i \in 1..6 : UpperHex[i] = c]
    ELSE IF c = "X" THEN "x" ELSE c

toLowerCase(str) == [i \in 1..Len(str) |-> ToLowerChar(str[i])]

\* a claimed signer that is undefined
NoSigner == <<"undefined">>

\* verifyOfflinePayment without the deadline check
verifyOfflinePayment_NoDeadline(deadline, nowMs, claimedSigner, recovered) ==
  IF recovered.throws \/ claimedSigner = NoSigner
    THEN [returns |-> TRUE, valid |-> FALSE, signer |-> <<>>,
          error |-> "Signature verification failed"]
  ELSE IF toLowerCase(recovered.address) # toLowerCase(claimedSigner)
    THEN [returns |-> TRUE, valid |-> FALSE, signer |-> recovered.address,
          error |-> "Signer mismatch"]
  ELSE [returns |-> TRUE, valid |-> TRUE, signer |-> recovered.address,
        error |-> ""]

\* blockchain.ts verifyOfflinePayment, whole: the deadline in seconds against
\* Math.floor(Date.now() / 1000), the recovery of the signer (which may
\* throw), and the comparison in lower case (which throws on an undefined
\* claimed signer); the catch turns every throw into a result
verifyOfflinePayment(deadline, nowMs, claimedSigner, recovered) ==
  IF deadline < nowMs \div 1000
    THEN [returns |-> TRUE, valid |-> FALSE, signer |-> <<>>,
          error |-> "Payment authorization expired"]
  ELSE IF recovered.throws \/ claimedSigner = NoSigner
    THEN [returns |-> TRUE, valid |-> FALSE, signer |-> <<>>,
          error |-> "Signature verification failed"]
  ELSE IF toLowerCase(recovered.address) # toLowerCase(claimedSigner)
    THEN [returns |-> TRUE, valid |-> FALSE, signer |-> recovered.address,
          error |-> "Signer mismatch"]
  ELSE [returns |-> TRUE, valid |-> TRUE, signer |-> recovered.address,
        error |-> ""]
(* ---------------- the exchange services ---------------- *)

RECURSIVE GCD(_, _)
GCD(a, b) == IF b = 0 THEN a ELSE GCD(b, a % b)

Abs(n) == IF n < 0 THEN 0 - n ELSE n

\* the number n / d of the quote arithmetic, in lowest terms (d # 0)
Rat(n, d) ==
  LET g == GCD(Abs(n), Abs(d))
      sign == IF d < 0 THEN 0 - 1 ELSE 1
  IN [num |-> sign * (n \div g), den |-> sign * (d \div g)]

\* x + y, x * y, x / y
RatAdd(x, y) ==
  LET l == (x.den \div GCD(x.den, y.den)) * y.den
  IN Rat(x.num * (l \div x.den) + y.num * (l \div y.den), l)

RatMul(x, y) ==
  LET a == Rat(x.num, y.den)
      b == Rat(y.num, x.den)
  IN Rat(a.num * b.num, a.den * b.den)

RatDiv(x, y) == RatMul(x, [num |-> y.den, den |-> y.num])

RATE_VALIDITY_MS == 300000

SERVICE_FEE_PERCENT == Rat(5, 10)

\* exchange.ts MOCK_RATES and NETWORK_FEE_ESTIMATES as numbers
MockRate(token) == Rat(MOCK_RATES[token], 10)
NetworkFeeEstimate(token) == Rat(NETWORK_FEE_ESTIMATES[token], 1)

\* the exchange services before any call: the clock, the module's rateCache
\* (per token <<>> or <<rate>>), the last quote created, the calls and clock
\* ticks so far
NoExchange ==
  [now |-> 0, rateCache |-> [t \in {"USDT", "USDC", "ETH"} |-> <<>>],
   quote |-> <<>>, work |-> 0]

\* MockExchangeService.addRandomVariance(rate, 0.5) with Math.random() = rand
addRandomVariance(rate, rand) ==
  LET variance == RatMul(RatMul(RatAdd(rand, Rat(0 - 1, 2)), Rat(2, 1)),
                         RatDiv(Rat(5, 10), Rat(100, 1)))
  IN RatMul(rate, RatAdd(Rat(1, 1), variance))

\* the cached rate of a token when it is still valid at time t, else <<>>
Cached(cache, token, t) ==
  IF cache[token] # <<>> /\ cache[token][1].validUntil > t
    THEN cache[token] ELSE <<>>

\* the rate a service stores and returns once it has a number at time t
Fresh(cache, token, rate, source, t) ==
  LET exchangeRate == [token |-> token, rate |-> rate, source |-> source,
                       timestamp |-> t, validUntil |-> t + RATE_VALIDITY_MS]
  IN [rate |-> exchangeRate, now |-> t,
      cache |-> [cache EXCEPT ![token] = <<exchangeRate>>]]

\* MockExchangeService.getRate at time t: the cached rate, or after the
\* simulated delay the base rate with its variance
MockGetRate(cache, token, t, delay, rand) ==
  IF Cached(cache, token, t) # <<>>
    THEN [rate |-> Cached(cache, token, t)[1], now |-> t, cache |-> cache]
    ELSE Fresh(cache, token, addRandomVariance(MockRate(token), rand), "mock",
               t + delay)

\* BitkubExchangeService.getRate: the cached rate, or ticker.last of the
\* market ticker (last = <<>>: the request fails or has no ticker, and the
\* mock service answers)
BitkubGetRate(cache, token, t, delay, last, rand) ==
  IF Cached(cache, token, t) # <<>>
    THEN [rate |-> Cached(cache, token, t)[1], now |-> t, cache |-> cache]
  ELSE IF last = <<>>
    THEN MockGetRate(cache, token, t + delay, delay, rand)
  ELSE Fresh(cache, token, last[1], "bitkub", t + delay)

\* CoinGeckoExchangeService.getRate: the cached rate, or the thb price (a
\* missing or zero price throws, and the mock service answers)
CoinGeckoGetRate(cache, token, t, delay, thb, rand) ==
  IF Cached(cache, token, t) # <<>>
    THEN [rate |-> Cached(cache, token, t)[1], now |-> t, cache |-> cache]
  ELSE IF thb = <<>> \/ thb[1].num = 0
    THEN MockGetRate(cache, token, t + delay, delay, rand)
  ELSE Fresh(cache, token, thb[1], "coingecko", t + delay)

\* MockExchangeService.createQuote without the division of the fee percentage
\* by 100
MockCreateQuote_Percent(amountTHB, token, rate, t) ==
  LET amountCrypto == RatDiv(amountTHB, rate.rate)
      networkFee == RatDiv(NetworkFeeEstimate(token), rate.rate)
      serviceFee == RatMul(amountCrypto, SERVICE_FEE_PERCENT)
      totalFee == RatAdd(networkFee, serviceFee)
  IN [amountTHB |-> amountTHB, amountCrypto |-> RatAdd(amountCrypto, totalFee),
      token |-> token, rate |-> rate,
      fee |-> [network |-> networkFee, service |-> serviceFee,
               total |-> totalFee],
      createdAt |-> t, expiresAt |-> t + QUOTE_VALIDITY_MS]

\* MockExchangeService.createQuote from the rate getRate returned, at time t
MockCreateQuote(amountTHB, token, rate, t) ==
  LET amountCrypto == RatDiv(amountTHB, rate.rate)
      networkFee == RatDiv(NetworkFeeEstimate(token), rate.rate)
      serviceFee == RatMul(amountCrypto,
                           RatDiv(SERVICE_FEE_PERCENT, Rat(100, 1)))
      totalFee == RatAdd(networkFee, serviceFee)
  IN [amountTHB |-> amountTHB, amountCrypto |-> RatAdd(amountCrypto, totalFee),
      token |-> token, rate |-> rate,
      fee |-> [network |-> networkFee, service |-> serviceFee,
               total |-> totalFee],
      createdAt |-> t, expiresAt |-> t + QUOTE_VALIDITY_MS]

\* BitkubExchangeService.createQuote
BitkubCreateQuote(amountTHB, token, rate, t) ==
  LET amountCrypto == RatDiv(amountTHB, rate.rate)
      networkFee == RatDiv(NetworkFeeEstimate(token), rate.rate)
      serviceFee == RatMul(amountCrypto,
                           RatDiv(SERVICE_FEE_PERCENT, Rat(100, 1)))
      totalFee == RatAdd(networkFee, serviceFee)
  IN [amountTHB |-> amountTHB, amountCrypto |-> RatAdd(amountCrypto, totalFee),
      token |-> token, rate |-> rate,
      fee |-> [network |-> networkFee, service |-> serviceFee,
               total |-> totalFee],
      createdAt |-> t, expiresAt |-> t + QUOTE_VALIDITY_MS]

\* CoinGeckoExchangeService.createQuote
CoinGeckoCreateQuote(amountTHB, token, rate, t) ==
  LET amountCrypto == RatDiv(amountTHB, rate.rate)
      networkFee == RatDiv(NetworkFeeEstimate(token), rate.rate)
      serviceFee == RatMul(amountCrypto,
                           RatDiv(SERVICE_FEE_PERCENT, Rat(100, 1)))
      totalFee == RatAdd(networkFee, serviceFee)
  IN [amountTHB |-> amountTHB, amountCrypto |-> RatAdd(amountCrypto, totalFee),
      token |-> token, rate |-> rate,
      fee |-> [network |-> networkFee, service |-> serviceFee,
               total |-> totalFee],
      createdAt |-> t, expiresAt |-> t + QUOTE_VALIDITY_MS]

(* ---------------- actions ---------------- *)

Init ==
  /\ orders = {}
  /\ queue = {}
  /\ networkStatus = "online"
  /\ isProcessing = FALSE
  /\ drain = Idle
  /\ now = initialDelay
  /\ chain = <<>>
  /\ settlements = {}
  /\ enqueued = 0
  /\ attempts = 0
  /\ writes = <<>>
  /\ maxAmountTHB = DEFAULT_maxAmountTHB
  /\ lastQuote = NoQuote
  /\ quoteStore = {}
  /\ orderStore = {}
  /\ calls = [c \in 1..MaxPayWork |-> NoCall]
  /\ sent = <<>>
  /\ sync = NoSync
  /\ detector = NoDetector
  /\ qr = NoQR
  /\ scan = NoScan
  /\ auth = NoAuth
  /\ exchange = NoExchange

\* OrderStorage.save of a newly created order
SaveOrder ==
  /\ orders' = orders \cup
       {NewOrderRow(<<"order", Cardinality(orders) + 1>>, now)}
  /\ writes' = <<>>
  /\ UNCHANGED <<queue, networkStatus, isProcessing, drain, now, chain,
                 settlements, enqueued, attempts, toolVars, sync,
                 serviceVars>>

\* OfflineQueueManager.queueTransaction(order, signature) for the stored
\* order r
queueTransaction(r) ==
    /\ LET o1 == [rowToOrder(r) EXCEPT !.status = "signed",
                     !.signature = SignedTxOf(r.id)]
           item == [id |-> <<"item", enqueued + 1>>, order |-> o1,
                    signedTx |-> SignedTxOf(r.id), retryCount |-> 0,
                    lastRetry |-> NULL, nextRetry |-> NULL,
                    createdAt |-> now]
           ord1 == update(orders, o1)
           q1 == enqueue(queue, item)
       IN IF networkStatus = "online"
            THEN processQueue(networkStatus, ord1, q1, Writes(orders, o1))
            ELSE Commit(ord1, q1, drain, isProcessing, Writes(orders, o1), 0)
    /\ enqueued' = enqueued + 1
    /\ UNCHANGED <<networkStatus, now, chain, settlements>>

\* a caller queues any stored order, queued before or not
QueueTransaction == \E r \in orders : queueTransaction(r)

\* a caller queues an order it has just quoted and signed
QueueQuoted == \E r \in orders : r.status = "quoted" /\ queueTransaction(r)

\* OfflineQueueManager.checkNetworkAndProcess, from the await checkNetwork()
\* on: one interval tick whose probe returned newStatus
CheckNetworkAndProcess ==
  \E newStatus \in ProbeResults :
    /\ networkStatus' = newStatus
    /\ IF networkStatus # "online" /\ newStatus = "online"
         THEN processQueue(newStatus, orders, queue, <<>>)
         ELSE Commit(orders, queue, drain, isProcessing, <<>>, 0)
    /\ UNCHANGED <<now, chain, settlements, enqueued>>

\* processItem resumes after await broadcastTransaction returned a hash
BroadcastOK ==
  /\ drain.pc = "broadcast"
  /\ LET h == NewTxHash(chain)
         o1 == [Item.order EXCEPT !.txHash = h]
     IN /\ chain' = Append(chain, [signedTx |-> Item.signedTx, txHash |-> h])
        /\ Commit(update(orders, o1), queue,
                  [drain EXCEPT !.pc = "confirm",
                                !.items[1].order = o1],
                  TRUE, Writes(orders, o1), 0)
  /\ UNCHANGED <<networkStatus, now, settlements, enqueued>>

\* processItem resumes in its catch block: broadcastTransaction threw
BroadcastThrows ==
  /\ drain.pc = "broadcast"
  /\ LET s == scheduleRetry(Item, "Broadcast failed", orders, queue, now)
     IN RunLoop(networkStatus, Rest, s.orders, s.queue,
                s.writes)
  /\ UNCHANGED <<networkStatus, now, chain, settlements, enqueued>>

\* processItem resumes after await waitForConfirmation returned true and
\* calls settle
ConfirmOK ==
  /\ drain.pc = "confirm"
  /\ Commit(orders, queue, [drain EXCEPT !.pc = "settle"], TRUE, <<>>, 0)
  /\ UNCHANGED <<networkStatus, now, chain, settlements, enqueued>>

\* processItem resumes after await waitForConfirmation returned false
ConfirmFails ==
  /\ drain.pc = "confirm"
  /\ LET s == scheduleRetry(Item, "Transaction not confirmed", orders, queue,
                            now)
     IN RunLoop(networkStatus, Rest, s.orders, s.queue,
                s.writes)
  /\ UNCHANGED <<networkStatus, now, chain, settlements, enqueued>>

\* processItem resumes after await settle returned success
SettleOK ==
  /\ drain.pc = "settle"
  /\ LET sid == NewSettlementId(settlements)
         o1 == [Item.order EXCEPT !.status = "completed",
                   !.settlementId = sid, !.completedAt = now]
     IN /\ settlements' = settlements \cup
             {[settlementId |-> sid, order |-> Item.order.id,
               success |-> TRUE]}
        /\ RunLoop(networkStatus, Rest, update(orders, o1),
                   dequeue(queue, Item.id), Writes(orders, o1))
  /\ UNCHANGED <<networkStatus, now, chain, enqueued>>

\* processItem resumes after await settle returned success = false
SettleFails ==
  /\ drain.pc = "settle"
  /\ LET sid == NewSettlementId(settlements)
         s == scheduleRetry(Item, "Settlement failed", orders, queue, now)
     IN /\ settlements' = settlements \cup
             {[settlementId |-> sid, order |-> Item.order.id,
               success |-> FALSE]}
        /\ RunLoop(networkStatus, Rest, s.orders, s.queue,
                   s.writes)
  /\ UNCHANGED <<networkStatus, now, chain, enqueued>>

\* time passes: the clock moves on by one initial retry delay
Advance ==
  /\ now + initialDelay <= MaxTime
  /\ now' = now + initialDelay
  /\ writes' = <<>>
  /\ UNCHANGED <<orders, queue, networkStatus, isProcessing, drain, chain,
                 settlements, enqueued, attempts, toolVars, sync,
                 serviceVars>>

(* ---------------- actions of the tools ---------------- *)

\* what the tools leave alone: the queue manager and its storage
queueVars == <<orders, queue, networkStatus, isProcessing, drain, chain,
               settlements, enqueued, attempts, writes>>

\* the inputs tried
ConfiguredMax == {5000, 10000, 20000}
AmountsTHB == {0, 100, 7000, 15000}
Tokens == {"USDT", "DOGE"}
AccountIds == {"", "0812345678"}
Balances == {0, 100000}
QuoteIds == {<<"quote", n>> : n \in 1..MaxPayWork}

\* the confirmPayment calls made so far (call c is the c-th one made)
Started == Cardinality({c \in 1..MaxPayWork : calls[c].pc # "idle"})

\* index.ts initBoonLink(config): the services are created from the config
InitBoonLink ==
  \E m \in ConfiguredMax :
    /\ m # maxAmountTHB
    /\ maxAmountTHB' = m
    /\ UNCHANGED <<queueVars, now, lastQuote, quoteStore, orderStore, calls,
                   sent, sync,
                 serviceVars>>

\* get-quote.ts getCryptoQuote(params), whole: its await is inside createQuote,
\* which may throw (a rate service that cannot be reached)
GetCryptoQuote ==
  \E amountTHB \in AmountsTHB, token \in Tokens, accountId \in AccountIds,
     throws \in BOOLEAN :
    /\ lastQuote.seq + Started < MaxPayWork
    /\ LET params == [amountTHB |-> amountTHB, token |-> token,
                      accountId |-> accountId]
           validationError == validateQuoteParams(params)
           n == lastQuote.seq + 1
       IN lastQuote' =
            IF validationError # ""
              THEN [seq |-> n, params |-> <<params>>, success |-> FALSE,
                    error |-> validationError, quote |-> <<>>, created |-> 0]
            ELSE IF throws
              THEN [seq |-> n, params |-> <<params>>, success |-> FALSE,
                    error |-> "Failed to get quote", quote |-> <<>>,
                    created |-> 1]
            ELSE [seq |-> n, params |-> <<params>>, success |-> TRUE,
                  error |-> "",
                  quote |-> <<createQuote(amountTHB, token, accountId, n,
                                          now)>>,
                  created |-> 1]
    /\ UNCHANGED <<queueVars, now, maxAmountTHB, quoteStore, orderStore,
                   calls, sent, sync,
                 serviceVars>>

\* confirm-pay.ts storeQuote(quote), called by the caller of getCryptoQuote
\* with the quote it got
StoreQuote ==
  /\ lastQuote.success
  /\ lastQuote.quote[1] \notin quoteStore
  /\ quoteStore' = quoteStore \cup {lastQuote.quote[1]}
  /\ UNCHANGED <<queueVars, now, maxAmountTHB, lastQuote, orderStore, calls,
                 sent, sync,
                 serviceVars>>

\* confirmPayment without the expiry check
confirmPayment_NoExpiry(c, quoteId) ==
  /\ lastQuote.seq + Started < MaxPayWork
  /\ c = Started + 1
  /\ LET found == {q \in quoteStore : q.id = quoteId}
         quote == CHOOSE q \in found : TRUE
         order == createOrder(quote, Cardinality(orderStore) + 1, now)
     IN IF found = {}
          THEN /\ calls' = [calls EXCEPT ![c].pc = "returned",
                                         ![c].quoteId = quoteId,
                                         ![c].error = "Quote not found"]
               /\ UNCHANGED orderStore
        ELSE /\ orderStore' = orderStore \cup {order}
             /\ calls' = [calls EXCEPT ![c].pc = "getBalance",
                                       ![c].quoteId = quoteId,
                                       ![c].quote = <<quote>>,
                                       ![c].order = order.id]
  /\ UNCHANGED <<queueVars, now, maxAmountTHB, lastQuote, quoteStore, sent,
                 sync,
                 serviceVars>>

\* confirm-pay.ts confirmPayment({quoteId, ...}) as call c, up to its first
\* await (getBalance)
confirmPayment(c, quoteId) ==
  /\ lastQuote.seq + Started < MaxPayWork
  /\ c = Started + 1
  /\ LET found == {q \in quoteStore : q.id = quoteId}
         quote == CHOOSE q \in found : TRUE
         order == createOrder(quote, Cardinality(orderStore) + 1, now)
     IN IF found = {}
          THEN /\ calls' = [calls EXCEPT ![c].pc = "returned",
                                         ![c].quoteId = quoteId,
                                         ![c].error = "Quote not found"]
               /\ UNCHANGED orderStore
        ELSE IF now > quote.expiresAt
          THEN /\ calls' = [calls EXCEPT ![c].pc = "returned",
                                         ![c].quoteId = quoteId,
                                         ![c].error = "Quote has expired"]
               /\ UNCHANGED orderStore
        ELSE /\ orderStore' = orderStore \cup {order}
             /\ calls' = [calls EXCEPT ![c].pc = "getBalance",
                                       ![c].quoteId = quoteId,
                                       ![c].quote = <<quote>>,
                                       ![c].order = order.id]
  /\ UNCHANGED <<queueVars, now, maxAmountTHB, lastQuote, quoteStore, sent,
                 sync,
                 serviceVars>>

ConfirmPayment ==
  \E c \in 1..MaxPayWork, quoteId \in QuoteIds : confirmPayment(c, quoteId)

\* confirmPayment resuming after await getBalance, without the balance check
AfterGetBalance_NoCheck ==
  \E c \in 1..MaxPayWork, balance \in Balances :
    /\ calls[c].pc = "getBalance"
    /\ Mutate(c, [OrderOf(c) EXCEPT !.status = "signed"])
    /\ calls' = [calls EXCEPT ![c].pc = "createTransferTx",
                              ![c].balance = <<balance>>]
    /\ UNCHANGED <<queueVars, now, maxAmountTHB, lastQuote, quoteStore, sent,
                   sync,
                 serviceVars>>

\* confirmPayment resumes after await getBalance
AfterGetBalance ==
  \E c \in 1..MaxPayWork, balance \in Balances :
    /\ calls[c].pc = "getBalance"
    /\ IF balance < calls[c].quote[1].amountCrypto
         THEN /\ Mutate(c, [OrderOf(c) EXCEPT
                              !.status = "failed",
                              !.error = "Insufficient balance"])
              /\ calls' = [calls EXCEPT ![c].pc = "returned",
                                        ![c].balance = <<balance>>,
                                        ![c].success = FALSE,
                                        ![c].error = "Insufficient balance"]
         ELSE /\ Mutate(c, [OrderOf(c) EXCEPT !.status = "signed"])
              /\ calls' = [calls EXCEPT ![c].pc = "createTransferTx",
                                        ![c].balance = <<balance>>]
    /\ UNCHANGED <<queueVars, now, maxAmountTHB, lastQuote, quoteStore, sent,
                   sync,
                 serviceVars>>

\* confirmPayment resumes after await createTransferTx
AfterCreateTransferTx ==
  \E c \in 1..MaxPayWork :
    /\ calls[c].pc = "createTransferTx"
    /\ Await(c, "signTransaction")
    /\ UNCHANGED <<queueVars, now, maxAmountTHB, lastQuote, quoteStore,
                   orderStore, sent, sync,
                 serviceVars>>

\* confirmPayment resumes after await signTransaction and calls
\* broadcastTransaction(signature.signedTx)
AfterSignTransaction ==
  \E c \in 1..MaxPayWork :
    /\ calls[c].pc = "signTransaction"
    /\ Mutate(c, [OrderOf(c) EXCEPT !.signature = SignedTxOf(calls[c].order),
                                    !.status = "pending"])
    /\ sent' = Append(sent, [order |-> calls[c].order,
                             signedTx |-> SignedTxOf(calls[c].order),
                             by |-> "confirmPayment"])
    /\ Await(c, "broadcastTransaction")
    /\ UNCHANGED <<queueVars, now, maxAmountTHB, lastQuote, quoteStore, sync,
                 serviceVars>>

\* the hash broadcastTransaction returned to call c
TxHashOf(c) == CHOOSE i \in 1..Len(sent) : sent[i].order = calls[c].order

\* confirmPayment resumes after await broadcastTransaction
AfterBroadcastTransaction ==
  \E c \in 1..MaxPayWork :
    /\ calls[c].pc = "broadcastTransaction"
    /\ Mutate(c, [OrderOf(c) EXCEPT !.txHash = TxHashOf(c)])
    /\ Await(c, "waitForConfirmation")
    /\ UNCHANGED <<queueVars, now, maxAmountTHB, lastQuote, quoteStore, sent,
                   sync,
                 serviceVars>>

\* confirmPayment resumes after await waitForConfirmation
AfterWaitForConfirmation ==
  \E c \in 1..MaxPayWork, confirmed \in BOOLEAN :
    /\ calls[c].pc = "waitForConfirmation"
    /\ IF ~confirmed
         THEN /\ Mutate(c, [OrderOf(c) EXCEPT
                              !.status = "failed",
                              !.error = "Transaction failed to confirm"])
              /\ Return(c, FALSE, "Transaction failed to confirm")
         ELSE /\ Mutate(c, [OrderOf(c) EXCEPT !.status = "settled"])
              /\ Await(c, "settle")
    /\ UNCHANGED <<queueVars, now, maxAmountTHB, lastQuote, quoteStore, sent,
                   sync,
                 serviceVars>>

\* confirmPayment resumes after await settle
AfterSettle ==
  \E c \in 1..MaxPayWork, success \in BOOLEAN :
    /\ calls[c].pc = "settle"
    /\ IF ~success
         THEN /\ Mutate(c, [OrderOf(c) EXCEPT !.status = "failed",
                                              !.error = "Settlement failed"])
              /\ Return(c, FALSE, "Settlement failed")
              /\ UNCHANGED quoteStore
         ELSE /\ Mutate(c, [OrderOf(c) EXCEPT
                              !.status = "completed",
                              !.settlementId = calls[c].order[2],
                              !.completedAt = now])
              /\ quoteStore' = {q \in quoteStore : q.id # calls[c].quoteId}
              /\ Return(c, TRUE, "")
    /\ UNCHANGED <<queueVars, now, maxAmountTHB, lastQuote, sent, sync,
                 serviceVars>>

\* the service call confirmPayment awaits throws: the catch block returns the
\* failure and does not touch the order
ServiceThrows ==
  \E c \in 1..MaxPayWork :
    /\ calls[c].pc \in {"getBalance", "createTransferTx", "signTransaction",
                        "broadcastTransaction", "waitForConfirmation",
                        "settle"}
    /\ Return(c, FALSE, "Payment failed")
    /\ UNCHANGED <<queueVars, now, maxAmountTHB, lastQuote, quoteStore,
                   orderStore, sent, sync,
                 serviceVars>>

\* time passes: the clock moves on by one quote validity period
QuoteTimePasses ==
  /\ now + QUOTE_VALIDITY_MS <= MaxPayTime
  /\ now' = now + QUOTE_VALIDITY_MS
  /\ UNCHANGED <<queueVars, maxAmountTHB, lastQuote, quoteStore, orderStore,
                 calls, sent, sync,
                 serviceVars>>

(* ---------------- actions of the detector ---------------- *)

ListenerKinds == {"quiet", "throws"}

\* what the detector leaves alone
notDetector == <<orders, queue, networkStatus, isProcessing, drain, now, chain,
                 settlements, enqueued, attempts, writes, toolVars, sync, qr,
                 scan, auth, exchange>>

Subscribed(l) == \E i \in 1..Len(detector.listeners) :
                   detector.listeners[i].id = l

\* NetworkStatusDetector.onStatusChange(listener)
OnStatusChange ==
  \E l \in 1..MaxListeners, kind \in ListenerKinds :
    /\ ~Subscribed(l)
    /\ detector' = [detector EXCEPT
                      !.listeners = Append(@, [id |-> l, kind |-> kind]),
                      !.notified = <<>>]
    /\ UNCHANGED notDetector

\* the handle onStatusChange returned for listener l is called
Unsubscribe ==
  \E l \in 1..MaxListeners :
    /\ Subscribed(l)
    /\ detector' = [detector EXCEPT !.listeners = Delete(@, l),
                                    !.notified = <<>>]
    /\ UNCHANGED notDetector

\* NetworkStatusDetector.check, from the await Promise.allSettled on
Check ==
  \E results \in [1..Endpoints -> PingResults] :
    /\ detector.checks < MaxChecks
    /\ LET newStatus == ComputeStatus(successCountOf(results),
                                      avgLatencyOf(results))
       IN detector' =
            IF newStatus # detector.status
              THEN [detector EXCEPT
                      !.checks = @ + 1,
                      !.results = results,
                      !.computed = newStatus,
                      !.status = newStatus,
                      !.notified = Notify(detector.listeners, newStatus)]
              ELSE [detector EXCEPT !.checks = @ + 1,
                                    !.results = results,
                                    !.computed = newStatus,
                                    !.notified = <<>>]
    /\ UNCHANGED notDetector

(* ---------------- actions of the QR codec and scan_qr ---------------- *)

\* what the codec leaves alone
notQR == <<orders, queue, networkStatus, isProcessing, drain, now, chain,
           settlements, enqueued, attempts, writes, toolVars, sync, detector,
           auth, exchange>>

\* the inputs tried: phone numbers of 10 and 9 digits with and without a
\* leading zero, a national id, an id of 11 digits; no amount, the smallest,
\* a usual and the largest amount
QRAccountIds ==
  {<<"0", "8", "1", "2", "3", "4", "5", "6", "7", "8">>,
   <<"1", "8", "1", "2", "3", "4", "5", "6", "7", "8">>,
   <<"8", "1", "2", "3", "4", "5", "6", "7", "8">>,
   <<"0", "1", "2", "3", "4", "5", "6", "7", "8">>,
   <<"1", "2", "3", "4", "5", "6", "7", "8", "9", "0", "1", "2", "3">>,
   <<"1", "2", "3", "4", "5", "6", "7", "8", "9", "0", "1">>}

QRAmounts ==
  {<<>>,
   <<Decimal(<<>>, <<"0", "1">>)>>,
   <<Decimal(<<"1", "0", "0">>, <<"5">>)>>,
   <<Decimal(<<"9", "9", "9", "9", "9", "9", "9", "9">>, <<"9", "9">>)>>}

\* generatePromptPayPayload(accountId, amount) is called (once in a run)
GeneratePayload ==
  \E accountId \in QRAccountIds, amount \in QRAmounts :
    /\ qr.payload = <<>>
    /\ qr' = [accountId |-> accountId, amount |-> amount,
              payload |-> generatePromptPayPayload(accountId, amount),
              tamper |-> "none", result |-> <<>>]
    /\ UNCHANGED <<notQR, scan>>

\* the numeric value of a hex character
HexValue(c) == (CHOOSE i \in 1..16 : HexChars[i] = ToUpperChar(c)) - 1

\* the last hex character of the CRC of a generated payload is replaced by
\* another hex digit, in upper or lower case
FlipCRC ==
  \E i \in 1..16, lower \in BOOLEAN :
    LET c == IF lower /\ i > 10 THEN LowerHex[i - 10] ELSE HexChars[i]
        n == Len(qr.payload)
    IN /\ qr.tamper = "none" /\ qr.payload # <<>>
       /\ lower => i > 10
       /\ HexValue(c) # HexValue(qr.payload[n])
       /\ qr' = [qr EXCEPT !.payload = [qr.payload EXCEPT ![n] = c],
                           !.tamper = "crc", !.result = <<>>]
       /\ UNCHANGED <<notQR, scan>>

\* the lengths the generated payload is cut to: below the minimum, inside the
\* country record, inside the value of the CRC record
CutLengths(n) == {MIN_PAYLOAD_LENGTH - 1, n - 9, n - 2}

\* the end of a generated payload is lost
Truncate ==
  \E len \in CutLengths(Len(qr.payload)) :
    /\ qr.tamper = "none" /\ qr.payload # <<>>
    /\ qr' = [qr EXCEPT !.payload = SubSeq(qr.payload, 1, len),
                        !.tamper = IF len < MIN_PAYLOAD_LENGTH
                                     THEN "short" ELSE "overrun",
                        !.result = <<>>]
    /\ UNCHANGED <<notQR, scan>>

\* the two length characters of the country record of a generated payload
\* ("5802TH", followed by the 8 characters of the CRC record) are garbled
GarbleLength ==
  LET n == Len(qr.payload)
  IN /\ qr.tamper = "none" /\ qr.payload # <<>>
     /\ qr' = [qr EXCEPT !.payload = [qr.payload EXCEPT ![n - 11] = "X",
                                                        ![n - 10] = "X"],
                         !.tamper = "length", !.result = <<>>]
     /\ UNCHANGED <<notQR, scan>>

\* the two length characters of the country record of a generated payload
\* are replaced by a negative number: "-1", "-4" or "-9"
NegativeLength ==
  \E digit \in {"1", "4", "9"} :
    LET n == Len(qr.payload)
    IN /\ qr.tamper = "none" /\ qr.payload # <<>>
       /\ qr' = [qr EXCEPT !.payload = [qr.payload EXCEPT ![n - 11] = "-",
                                                          ![n - 10] = digit],
                           !.tamper = "negative", !.result = <<>>]
       /\ UNCHANGED <<notQR, scan>>

\* parsePromptPayQR(payload) is called with the payload at hand
ParsePayload ==
  /\ qr.payload # <<>> /\ qr.result = <<>>
  /\ qr' = [qr EXCEPT !.result = <<parsePromptPayQR(qr.payload)>>]
  /\ UNCHANGED <<notQR, scan>>

\* the URL schemes tried
Schemes ==
  {<<"m", "o", "c", "k", ":", "/", "/">>, <<"h", "t", "t", "p", ":", "/", "/">>, <<"h", "t", "t", "p", "s", ":", "/", "/">>,
   <<"f", "t", "p", ":", "/", "/">>}

ScanFailure(error) == [success |-> FALSE, error |-> error, promptPay |-> <<>>]

\* what scanPromptPayQR returns for the result of its parsePromptPayQR call
ScanResultOf(result) ==
  IF result.success
    THEN [success |-> TRUE, error |-> "", promptPay |-> result.data]
    ELSE ScanFailure(result.error)

\* scan-qr.ts scanPromptPayQR({imageUrl}), whole: imageUrl is a scheme
\* followed by the payload at hand; decoded is what fetchImageData and jsQR
\* make of the image when they are reached ("throws", "none", or the
\* payload). The one parsePromptPayQR call of the branch taken is of
\* mockPayload in the mock branch and of qrData after decoding
scanPromptPayQR(imageUrl, decoded) ==
  LET mock == startsWith(imageUrl, <<"m", "o", "c", "k", ":", "/", "/">>)
  IN IF imageUrl = <<>> \/ ~startsWith(imageUrl, <<"h", "t", "t", "p">>)
       THEN [imageUrl |-> imageUrl, fetched |-> FALSE,
             result |-> <<ScanFailure("Invalid image URL provided")>>]
     ELSE IF decoded = "throws" /\ ~mock
       THEN [imageUrl |-> imageUrl, fetched |-> TRUE,
             result |-> <<ScanFailure("Failed to scan QR")>>]
     ELSE IF decoded = "none" /\ ~mock
       THEN [imageUrl |-> imageUrl, fetched |-> TRUE,
             result |-> <<ScanFailure("No QR code found in image")>>]
     ELSE [imageUrl |-> imageUrl, fetched |-> ~mock,
           result |->
             <<ScanResultOf(parsePromptPayQR(
                 IF mock
                   THEN sliceFrom(imageUrl,
                                  Len(<<"m", "o", "c", "k", ":", "/", "/">>))
                   ELSE qr.payload))>>]

\* scanPromptPayQR is called with a URL made of a scheme and the payload
ScanPromptPayQR ==
  \E scheme \in Schemes, decoded \in {"throws", "none", "payload"} :
    /\ qr.payload # <<>> /\ scan.result = <<>>
    /\ scan' = scanPromptPayQR(scheme \o qr.payload, decoded)
    /\ UNCHANGED <<notQR, qr>>

(* ---------------- actions of the offline authorization ---------------- *)

\* what verifyOfflinePayment leaves alone
notAuth == <<orders, queue, networkStatus, isProcessing, drain, now, chain,
             settlements, enqueued, attempts, writes, toolVars, sync, detector,
             qr, scan, exchange>>

\* the inputs tried: deadlines around second 100, clock readings around it in
\* milliseconds, two addresses in checksum, lower and upper case
Deadlines == {99, 100, 101}
ClockReadings == {99999, 100000, 100999, 101000}
Addresses ==
  {<<"0", "x", "A", "b", "5", "8">>, <<"0", "x", "a", "b", "5", "8">>,
   <<"0", "X", "A", "B", "5", "8">>, <<"0", "x", "C", "d", "1", "7">>}
Recoveries ==
  {[throws |-> TRUE, address |-> <<>>]} \cup
  {[throws |-> FALSE, address |-> a] :
     a \in {<<"0", "x", "A", "b", "5", "8">>, <<"0", "x", "C", "d", "1", "7">>}}

\* verifyOfflinePayment(signedPayment) is called
VerifyOfflinePayment ==
  \E deadline \in Deadlines, nowMs \in ClockReadings,
     claimedSigner \in Addresses \cup {NoSigner}, recovered \in Recoveries :
    /\ auth' = [deadline |-> deadline, nowMs |-> nowMs,
                claimedSigner |-> claimedSigner, recovered |-> recovered,
                result |-> <<verifyOfflinePayment(deadline, nowMs,
                                                  claimedSigner, recovered)>>]
    /\ UNCHANGED notAuth

(* ---------------- actions of the exchange services ---------------- *)

\* what the exchange services leave alone
notExchange == <<orders, queue, networkStatus, isProcessing, drain, now, chain,
                 settlements, enqueued, attempts, writes, toolVars, sync,
                 detector, qr, scan, auth>>

\* the inputs tried: amounts in baht, the values of Math.random(), the
\* request delay in ms, the numbers the two APIs report (<<>>: the request
\* fails)
ExchangeAmounts == {Rat(100, 1), Rat(50000, 1), Rat(9999, 100)}
ExchangeTokens == {"USDT", "ETH"}
Randoms == {Rat(0, 1), Rat(3, 4)}
Delays == {0, 250}
BitkubLast == [USDT |-> {<<>>, <<Rat(3582, 100)>>},
               ETH |-> {<<>>, <<Rat(121500, 1)>>}]
CoinGeckoThb == [USDT |-> {<<>>, <<Rat(0, 1)>>, <<Rat(3561, 100)>>},
                 ETH |-> {<<>>, <<Rat(0, 1)>>, <<Rat(239001, 2)>>}]

ExchangeBounded == exchange.work < MaxExchangeWork

\* MockExchangeService.createQuote(amountTHB, token, promptPay), whole
MockExchangeCreateQuote ==
  \E amountTHB \in ExchangeAmounts, token \in ExchangeTokens,
     delay \in Delays, rand \in Randoms :
    /\ ExchangeBounded
    /\ LET r == MockGetRate(exchange.rateCache, token, exchange.now, delay,
                            rand)
       IN exchange' =
            [now |-> r.now, rateCache |-> r.cache,
             quote |-> <<[service |-> "mock",
                          quote |-> MockCreateQuote(amountTHB, token, r.rate,
                                                    r.now)]>>,
             work |-> exchange.work + 1]
    /\ UNCHANGED notExchange

\* BitkubExchangeService.createQuote(amountTHB, token, promptPay), whole
BitkubExchangeCreateQuote ==
  \E amountTHB \in ExchangeAmounts, token \in ExchangeTokens,
     delay \in Delays, rand \in Randoms :
    \E last \in BitkubLast[token] :
      /\ ExchangeBounded
      /\ LET r == BitkubGetRate(exchange.rateCache, token, exchange.now,
                                delay, last, rand)
         IN exchange' =
              [now |-> r.now, rateCache |-> r.cache,
               quote |-> <<[service |-> "bitkub",
                            quote |-> BitkubCreateQuote(amountTHB, token,
                                                        r.rate, r.now)]>>,
               work |-> exchange.work + 1]
      /\ UNCHANGED notExchange

\* CoinGeckoExchangeService.createQuote(amountTHB, token, promptPay), whole
CoinGeckoExchangeCreateQuote ==
  \E amountTHB \in ExchangeAmounts, token \in ExchangeTokens,
     delay \in Delays, rand \in Randoms :
    \E thb \in CoinGeckoThb[token] :
      /\ ExchangeBounded
      /\ LET r == CoinGeckoGetRate(exchange.rateCache, token, exchange.now,
                                   delay, thb, rand)
         IN exchange' =
              [now |-> r.now, rateCache |-> r.cache,
               quote |-> <<[service |-> "coingecko",
                            quote |-> CoinGeckoCreateQuote(amountTHB, token,
                                                           r.rate, r.now)]>>,
               work |-> exchange.work + 1]
      /\ UNCHANGED notExchange

\* the clock moves on by more than the validity of a cached rate
ExchangeTimePasses ==
  /\ ExchangeBounded
  /\ exchange' = [exchange EXCEPT !.now = @ + RATE_VALIDITY_MS,
                                  !.work = @ + 1]
  /\ UNCHANGED notExchange

(* ---------------- actions of the sync manager ---------------- *)

Listeners == {"quiet", "reenters", "throws", "throwsAlways", "throwsOnCompleted"}
Days == {0, 1}

\* a forceSync() call
ForceSync ==
  \E listener \in Listeners :
    /\ sync.runs < MaxSyncs
    /\ sync' = forceSync(sync, networkStatus, queue, orders, now, listener)
    /\ writes' = <<>>
    /\ UNCHANGED <<orders, queue, networkStatus, isProcessing, drain, now,
                   chain, settlements, enqueued, attempts, toolVars,
                   serviceVars>>

\* a cleanupOldOrders(olderThanDays) call
CleanupOldOrders ==
  \E olderThanDays \in Days :
    /\ sync.runs < MaxSyncs
    /\ sync' = [sync EXCEPT
                  !.runs = @ + 1,
                  !.last = "cleanupOldOrders",
                  !.events = <<>>, !.result = <<>>, !.nested = <<>>,
                  !.cleaned = <<[olderThanDays |-> olderThanDays,
                                 deletedCount |->
                                   cleanupOldOrders(orders, now,
                                                    olderThanDays)]>>]
    /\ writes' = <<>>
    /\ UNCHANGED <<orders, queue, networkStatus, isProcessing, drain, now,
                   chain, settlements, enqueued, attempts, toolVars,
                   serviceVars>>

(* ---------------- specifications ---------------- *)

\* the work done so far stays within the bound
Bounded == Cardinality(orders') + enqueued' + attempts' <= MaxWork

Next ==
  \/ SaveOrder /\ Bounded
  \/ QueueTransaction /\ Bounded
  \/ CheckNetworkAndProcess /\ Bounded
  \/ BroadcastOK
  \/ BroadcastThrows /\ Bounded
  \/ ConfirmOK
  \/ ConfirmFails /\ Bounded
  \/ SettleOK /\ Bounded
  \/ SettleFails /\ Bounded
  \/ Advance

Spec == Init /\ [][Next]_vars

\* every order is queued once, when it is QUOTED
NextFlow ==
  \/ SaveOrder /\ Bounded
  \/ QueueQuoted /\ Bounded
  \/ CheckNetworkAndProcess /\ Bounded
  \/ BroadcastOK
  \/ BroadcastThrows /\ Bounded
  \/ ConfirmOK
  \/ ConfirmFails /\ Bounded
  \/ SettleOK /\ Bounded
  \/ SettleFails /\ Bounded
  \/ Advance

SpecFlow == Init /\ [][NextFlow]_vars

\* one order with one queue item, run more often
RetryBounded ==
  /\ attempts' <= MaxRetryRuns
  /\ Cardinality(orders') <= 1
  /\ now' = now

NextRetry ==
  \/ SaveOrder /\ RetryBounded
  \/ QueueQuoted /\ RetryBounded
  \/ CheckNetworkAndProcess /\ RetryBounded
  \/ BroadcastOK
  \/ BroadcastThrows /\ RetryBounded
  \/ ConfirmOK
  \/ ConfirmFails /\ RetryBounded
  \/ SettleOK /\ RetryBounded
  \/ SettleFails /\ RetryBounded

SpecRetry == Init /\ [][NextRetry]_vars

\* one order, queued while the manager is OFFLINE; every service call
\* returns, and returns success
LiveBounded ==
  /\ Bounded
  /\ Cardinality(orders') <= 1

NextLive ==
  \/ SaveOrder /\ LiveBounded
  \/ QueueQuoted /\ networkStatus = "offline"
  \/ CheckNetworkAndProcess /\ LiveBounded
  \/ BroadcastOK
  \/ ConfirmOK
  \/ SettleOK
  \/ Advance

SpecLive ==
  /\ Init
  /\ [][NextLive]_vars
  /\ WF_vars(BroadcastOK)
  /\ WF_vars(ConfirmOK)
  /\ WF_vars(SettleOK)

\* the started manager with the status ONLINE at every probe: at most two
\* orders, each queued once; the interval keeps firing, every service call
\* returns (with success or not), and time passes
TickBounded ==
  /\ Bounded
  /\ Cardinality(orders') <= 2

\* one interval tick of start() whose probe returns ONLINE
Tick == CheckNetworkAndProcess /\ networkStatus' = "online"

NextTick ==
  \/ SaveOrder /\ TickBounded
  \/ QueueQuoted /\ TickBounded
  \/ Tick /\ TickBounded
  \/ BroadcastOK
  \/ BroadcastThrows /\ TickBounded
  \/ ConfirmOK
  \/ ConfirmFails /\ TickBounded
  \/ SettleOK /\ TickBounded
  \/ Advance

SpecTick ==
  /\ Init
  /\ [][NextTick]_vars
  /\ WF_vars(Tick /\ TickBounded)
  /\ WF_vars(BroadcastOK \/ (BroadcastThrows /\ TickBounded))
  /\ WF_vars(ConfirmOK \/ (ConfirmFails /\ TickBounded))
  /\ WF_vars(SettleOK /\ TickBounded)
  /\ WF_vars(Advance)

\* the tools: quotes are made, stored and paid
NextPay ==
  \/ GetCryptoQuote
  \/ StoreQuote
  \/ ConfirmPayment
  \/ AfterGetBalance
  \/ AfterCreateTransferTx
  \/ AfterSignTransaction
  \/ AfterBroadcastTransaction
  \/ AfterWaitForConfirmation
  \/ AfterSettle
  \/ ServiceThrows
  \/ QuoteTimePasses

SpecPay == Init /\ [][NextPay]_vars

\* get_quote alone, under each configuration
NextQuote ==
  \/ InitBoonLink
  \/ GetCryptoQuote
  \/ QuoteTimePasses

SpecQuote == Init /\ [][NextQuote]_vars

\* the queue manager with a sync manager on top of it
SyncBounded == Cardinality(orders') + enqueued' + attempts' <= MaxSyncWork

NextSync ==
  \/ SaveOrder /\ SyncBounded
  \/ QueueTransaction /\ SyncBounded
  \/ CheckNetworkAndProcess /\ SyncBounded
  \/ BroadcastOK
  \/ BroadcastThrows /\ SyncBounded
  \/ ConfirmOK
  \/ ConfirmFails /\ SyncBounded
  \/ SettleOK /\ SyncBounded
  \/ SettleFails /\ SyncBounded
  \/ Advance
  \/ ForceSync
  \/ CleanupOldOrders

SpecSync == Init /\ [][NextSync]_vars

\* the detector with its listeners
NextDetector ==
  \/ OnStatusChange
  \/ Unsubscribe
  \/ Check

SpecDetector == Init /\ [][NextDetector]_vars

\* the QR codec: payloads are generated, damaged and parsed
NextQR ==
  \/ GeneratePayload
  \/ FlipCRC
  \/ Truncate
  \/ GarbleLength
  \/ NegativeLength
  \/ ParsePayload

SpecQR == Init /\ [][NextQR]_vars

\* quotes are created by the three exchange services
NextExchange ==
  \/ MockExchangeCreateQuote
  \/ BitkubExchangeCreateQuote
  \/ CoinGeckoExchangeCreateQuote
  \/ ExchangeTimePasses

SpecExchange == Init /\ [][NextExchange]_vars

\* offline authorizations are verified
NextAuth == VerifyOfflinePayment

SpecAuth == Init /\ [][NextAuth]_vars

\* scan_qr on generated payloads
NextScan ==
  \/ GeneratePayload
  \/ ScanPromptPayQR

SpecScan == Init /\ [][NextScan]_vars

(* ---------------- properties ---------------- *)

\* section 4.4: the legal transitions
LegalEdges ==
  {<<"init", "quoted">>, <<"init", "cancelled">>,
   <<"quoted", "signed">>, <<"quoted", "expired">>, <<"quoted", "cancelled">>,
   <<"signed", "pending">>, <<"signed", "failed">>,
   <<"pending", "settled">>, <<"pending", "failed">>,
   <<"pending", "timeout">>,
   <<"settled", "completed">>, <<"settled", "failed">>}

TerminalStatuses == {"completed", "expired", "cancelled", "failed", "timeout"}

\* C1: every change of a stored order's status made by queueTransaction,
\* processItem or scheduleRetry is an edge of the legal transition graph
C1_LegalTransitions ==
  \A i \in 1..Len(writes) : <<writes[i].from, writes[i].to>> \in LegalEdges

\* C2: terminal statuses are absorbing: no operation changes the status of an
\* order whose stored status is COMPLETED, EXPIRED, CANCELLED, FAILED or TIMEOUT
C2_TerminalAbsorbing ==
  \A i \in 1..Len(writes) : writes[i].from \notin TerminalStatuses

\* C3: when settle returns success, the order is stored as COMPLETED with
\* settlementId and completedAt, and the row of the processed item has left
\* the queue
C3_SettledItemLeavesQueue ==
  [][(drain.pc = "settle" /\ \E s \in settlements' \ settlements : s.success)
       => LET r == OrderRowOf(orders', Item.order.id)
          IN /\ r.status = "completed"
             /\ r.settlement_id # NULL
             /\ r.completed_at # NULL
             /\ drain.rows[drain.idx] \notin queue']_vars

\* C4: the single queue item is run at most maxRetries times, and when its
\* last run has failed the order is FAILED with "Max retries exceeded: ..."
\* and the queue row is gone
C4_RetryBound ==
  /\ attempts <= maxRetries
  /\ (attempts = maxRetries /\ drain.pc = "idle")
       => \A r \in orders :
            \/ r.status = "completed"
            \/ /\ r.status = "failed"
               /\ Len(r.error) = 2
               /\ r.error[1] = "Max retries exceeded: "
               /\ \A x \in queue : x.order_id # r.id

InQueue(n) == \E r \in queue : r.id = <<"item", n>>

\* C5: an item queued while OFFLINE is, once the status is ONLINE and with
\* every service call succeeding, eventually completed and out of the queue
C5_OfflineThenOnline ==
  \A n \in 1..MaxWork :
    (InQueue(n) /\ networkStatus = "online")
      ~> (/\ ~InQueue(n)
          /\ \A r \in orders : r.status = "completed")

NotInFlight(r) == drain.pc = "idle" \/ drain.rows[drain.idx] # r

C7_DrainOrder ==
  [][attempts' > attempts
       => /\ \A k \in 1..Len(drain'.rows) :
               IsReady(drain'.rows[k], drain'.startedAt)
          /\ \A k \in 1..(drain'.idx - 1) :
               drain'.rows[k].created_at <= drain'.rows[drain'.idx].created_at
          /\ IF isProcessing
               THEN drain'.rows = drain.rows /\ drain'.idx = drain.idx + 1
               ELSE /\ drain'.idx = 1
                    /\ drain'.startedAt = now'
                    /\ {drain'.rows[k] : k \in 1..Len(drain'.rows)}
                         = ReadyRows(queue', orders', now')]_vars

\* C7 witness: the second item of a drain, queued later than the first, has
\* been started
C7_Witness ==
  /\ drain.idx = 2
  /\ drain.rows[1].created_at < drain.rows[2].created_at

\* C8: the queue never holds two items for the same order (the first half of
\* the claim; the drain itself runs one processItem at a time)
C8_OneItemPerOrder ==
  \A r1, r2 \in queue : r1.order_id = r2.order_id => r1 = r2

\* C9: all successful settle calls for one order return the same settlementId
C9_SettlementIdempotent ==
  \A s1, s2 \in settlements :
    (s1.order = s2.order /\ s1.success /\ s2.success)
      => s1.settlementId = s2.settlementId

\* the hash the first broadcast of a signed transaction returned
FirstHash(tx) ==
  chain[CHOOSE i \in 1..Len(chain) :
          /\ chain[i].signedTx = tx
          /\ \A j \in 1..(i - 1) : chain[j].signedTx # tx].txHash

\* C10: the txHash recorded for an order stays the hash of the first broadcast
\* of its signed transaction, also when a retry broadcasts it again
C10_TxHashStable ==
  \A r \in orders :
    r.tx_hash # NULL => r.tx_hash = FirstHash(SignedTxOf(r.id))

(* ---------------- properties of the tools ---------------- *)

\* the quote stored under id, as a set (empty: no such quote)
QuoteOf(id) == {q \in quoteStore : q.id = id}

\* call c has just been made in this step
Called(c) == calls[c].pc = "idle" /\ calls'[c].pc # "idle"

\* C11: a confirm_payment call whose quote has expired (now > expiresAt) or
\* whose quoteId is unknown returns success=false at once, and creates and
\* changes no order.
C11_ExpiredOrUnknownQuote ==
  [][\A c \in 1..MaxPayWork :
       (Called(c) /\ \A q \in QuoteOf(calls'[c].quoteId) : now > q.expiresAt)
         => /\ calls'[c].pc = "returned"
            /\ ~calls'[c].success
            /\ calls'[c].order = <<>>
            /\ orderStore' = orderStore]_vars

\* one call was refused for an unknown quote and another for an expired one
C11_Witness ==
  /\ \E c \in 1..MaxPayWork :
       calls[c].pc = "returned" /\ calls[c].error = "Quote not found"
  /\ \E c \in 1..MaxPayWork :
       /\ calls[c].pc = "returned" /\ calls[c].error = "Quote has expired"
       /\ \E q \in QuoteOf(calls[c].quoteId) : now > q.expiresAt

\* the stored order of call c after the step
OrderOfNext(c) == CHOOSE o \in orderStore' : o.id = calls[c].order

\* C12: when getBalance returns less than quote.amountCrypto, the order goes
\* from QUOTED to FAILED with an insufficient-balance error, the call returns
\* success=false, no queue item is created and nothing is signed or broadcast.
C12_InsufficientBalance ==
  [][\A c \in 1..MaxPayWork :
       (/\ calls[c].pc = "getBalance"
        /\ calls'[c].balance # <<>>
        /\ calls'[c].balance[1] < calls[c].quote[1].amountCrypto)
         => /\ OrderOf(c).status = "quoted"
            /\ OrderOfNext(c).status = "failed"
            /\ OrderOfNext(c).error = "Insufficient balance"
            /\ OrderOfNext(c).signature = NULL
            /\ OrderOfNext(c).txHash = NULL
            /\ calls'[c].pc = "returned"
            /\ ~calls'[c].success
            /\ queue' = queue
            /\ \A i \in 1..Len(sent') : sent'[i].order # calls[c].order]_vars

\* a call has returned because the balance was below the quoted amount
C12_Witness ==
  \E c \in 1..MaxPayWork :
    /\ calls[c].pc = "returned"
    /\ calls[c].balance # <<>>
    /\ calls[c].balance[1] < calls[c].quote[1].amountCrypto
    /\ calls[c].balance[1] > 0
    /\ OrderOf(c).status = "failed"

\* C13: a get_quote call that succeeds leaves its quote in the quote store
\* under the quote's id, where a confirm_payment call made next finds it.
C13_QuoteStored ==
  [][(lastQuote'.seq # lastQuote.seq /\ lastQuote'.success)
       => lastQuote'.quote[1] \in quoteStore']_vars

\* C14: get_quote fails without calling createQuote when amountTHB <= 0, when
\* amountTHB exceeds the configured maxAmountTHB (the value given to
\* initBoonLink, 10000 by default), when the token is not USDT, USDC or ETH,
\* or when the accountId is empty; otherwise it calls createQuote exactly once.
C14_QuoteValidation ==
  [][lastQuote'.seq # lastQuote.seq
       => LET params == lastQuote'.params[1]
          IN IF \/ params.amountTHB <= 0
                \/ params.amountTHB > maxAmountTHB
                \/ params.token \notin SupportedTokens
                \/ params.accountId = ""
               THEN ~lastQuote'.success /\ lastQuote'.created = 0
               ELSE lastQuote'.created = 1]_vars

\* C15: when a signed transaction is handed to broadcastTransaction, a queue
\* item of its order is already in the persistent queue, and the caller is
\* the queue processor, never confirm_payment itself.
C15_QueuedBeforeBroadcast ==
  [][Len(sent') > Len(sent)
       => /\ sent'[Len(sent')].by = "processQueue"
          /\ \E r \in queue : r.order_id = sent'[Len(sent')].order]_vars

\* C16: once a confirm_payment call that created an order has returned
\* success=false, the stored order is FAILED with a non-empty error; it is
\* not left in QUOTED, SIGNED, PENDING or SETTLED.
C16_FailureMarksOrderFailed ==
  \A c \in 1..MaxPayWork :
    (calls[c].pc = "returned" /\ ~calls[c].success /\ calls[c].order # <<>>)
      => /\ OrderOf(c).status = "failed"
         /\ OrderOf(c).error # ""

\* the broadcasts made so far for the order of call c, after the step
AttemptsOf(c) ==
  Cardinality({i \in 1..Len(sent') : sent'[i].order = calls[c].order})

\* C17: a confirmation or settlement that fails is retried; the order is not
\* marked FAILED for it before the retry limit is exhausted, also when
\* confirm_payment runs the payment.
C17_FailedOnlyAfterRetries ==
  [][\A c \in 1..MaxPayWork :
       (/\ calls[c].pc \in {"waitForConfirmation", "settle"}
        /\ OrderOfNext(c).status = "failed")
         => AttemptsOf(c) >= maxRetries]_vars

(* ---------------- properties of the sync manager ---------------- *)

\* this step is a forceSync call
ForceSyncCalled == sync'.runs # sync.runs /\ sync'.last = "forceSync"

\* C18: a forceSync call made while a sync is in progress or while the
\* manager is OFFLINE returns success=false, synced=0, failed=0, emits no
\* event and leaves the queue and the orders as they were; and whenever a
\* forceSync call has ended, isSyncing is false.
C18_ForceSyncRefusal ==
  [][ForceSyncCalled
       => /\ (networkStatus = "offline" \/ sync.isSyncing)
               => /\ sync'.result # <<>>
                  /\ ~sync'.result[1].success
                  /\ sync'.result[1].synced = 0
                  /\ sync'.result[1].failed = 0
                  /\ sync'.events = <<>>
                  /\ sync'.lastSyncTime = sync.lastSyncTime
                  /\ queue' = queue
                  /\ orders' = orders
          /\ sync'.nested # <<>>
               => /\ ~sync'.nested[1].success
                  /\ sync'.nested[1].synced = 0
                  /\ sync'.nested[1].failed = 0
                  /\ Len(sync'.events) = Cardinality(getAll(queue, orders)) + 2
                  /\ queue' = queue
                  /\ orders' = orders
          /\ ~sync'.isSyncing]_vars

\* both refusals have been returned, with items in the queue
C18_Witness ==
  /\ sync.refused = {"Sync already in progress", "Network offline"}
  /\ queue # {}
  /\ ~sync.isSyncing

\* C19: when forceSync returns success=true, every item that was ready at
\* the call has been put through the pipeline (it is no longer waiting in the
\* queue as it was), and synced and failed count the items it completed and
\* failed.
C19_SyncProcessesReadyItems ==
  [][(ForceSyncCalled /\ sync'.result # <<>> /\ sync'.result[1].success
        /\ ~isProcessing)
       => /\ \A r \in ReadyRows(queue, orders, now) : r \notin queue'
          /\ sync'.result[1].synced + sync'.result[1].failed
               = Cardinality(ReadyRows(queue, orders, now))]_vars

\* the COMPLETED orders older than the cutoff of cleanupOldOrders(d) at time t
OldCompleted(tbl, t, d) ==
  {o \in tbl : /\ o.status = "completed"
               /\ o.completed_at # NULL
               /\ o.completed_at < t - d * 24 * 60 * 60 * 1000}

\* C20: a cleanupOldOrders(d) call that returns n has removed from the order
\* store the n COMPLETED orders completed more than d days ago, and has left
\* every other order as it was.
C20_CleanupRemovesOldOrders ==
  [][(sync'.runs # sync.runs /\ sync'.last = "cleanupOldOrders")
       => LET d == sync'.cleaned[1].olderThanDays
              old == OldCompleted(orders, now, d)
          IN /\ sync'.cleaned[1].deletedCount = Cardinality(old)
             /\ orders' = orders \ old]_vars

(* ---------------- properties of the detector ---------------- *)

\* the calls the last check made to listener l, after the step
CallsTo(l) ==
  {i \in 1..Len(detector'.notified) : detector'.notified[i].listener = l}

\* C21: when a probe round computes a status different from the current one,
\* every subscribed listener is called exactly once with the pair
\* (oldStatus, newStatus); when it computes the current status, no listener
\* is called; an unsubscribed listener is never called.
C21_ListenersNotified ==
  [][detector'.checks # detector.checks
       => IF detector'.computed # detector.status
            THEN \A l \in 1..MaxListeners :
                   IF Subscribed(l)
                     THEN /\ Cardinality(CallsTo(l)) = 1
                          /\ \A i \in CallsTo(l) :
                               detector'.notified[i].args =
                                 <<detector.status, detector'.computed>>
                     ELSE CallsTo(l) = {}
            ELSE detector'.notified = <<>>]_vars

(* ---------------- properties of the QR codec ---------------- *)

\* what parsePromptPayQR returned for the payload at hand
Parsed == qr.result[1]

\* C22: for every numeric id of length 9, 10 or 13 and every amount that is
\* absent or between 0 and 10^8, parsing the generated payload succeeds with
\* the id given, the type phone for lengths 9 and 10 and national_id for
\* length 13, the amount given, and isValid true.
C22_RoundTrip ==
  (qr.result # <<>> /\ qr.tamper = "none" /\ Len(qr.accountId) \in {9, 10, 13})
    => /\ Parsed.returns /\ Parsed.success
       /\ Parsed.data[1].accountId = qr.accountId
       /\ Parsed.data[1].accountType =
            (IF Len(qr.accountId) = 13 THEN "national_id" ELSE "phone")
       /\ Parsed.data[1].amount = qr.amount
       /\ Parsed.data[1].isValid

\* C23: a successful parse gives a phone account of exactly 10 characters or
\* a national id of exactly 13, and the payload generated for an identifier
\* of another length (here 11) does not parse successfully.
C23_AccountLength ==
  (qr.result # <<>> /\ Parsed.returns)
    => /\ Parsed.success
            => /\ Parsed.data[1].accountType = "phone"
                    => Len(Parsed.data[1].accountId) = 10
               /\ Parsed.data[1].accountType = "national_id"
                    => Len(Parsed.data[1].accountId) = 13
       /\ (qr.tamper = "none" /\ Len(qr.accountId) \notin {9, 10, 13})
            => ~Parsed.success

\* C24: a payload shorter than 20 characters, a payload with a record whose
\* length characters are not digits, and a payload with a record whose
\* declared length overruns the input all make parsePromptPayQR return
\* success = false.
C24_MalformedRejected ==
  (qr.result # <<>> /\ qr.tamper \in {"short", "length", "overrun"})
    => Parsed.returns /\ ~Parsed.success

\* the parse of the payload as it was generated
Untampered == parsePromptPayQR(generatePromptPayPayload(qr.accountId, qr.amount))

\* C25: with the last hex character of the CRC of a generated payload
\* replaced by a different hex digit, parsePromptPayQR returns success with
\* the accountId, accountType and amount of the untouched payload, and
\* isValid false.
C25_CRCMismatchNonFatal ==
  (qr.result # <<>> /\ qr.tamper = "crc")
    => /\ Parsed.returns /\ Parsed.success
       /\ Untampered.success
       /\ Parsed.data[1].accountId = Untampered.data[1].accountId
       /\ Parsed.data[1].accountType = Untampered.data[1].accountType
       /\ Parsed.data[1].amount = Untampered.data[1].amount
       /\ ~Parsed.data[1].isValid

C25_Witness ==
  /\ qr.result # <<>> /\ qr.tamper = "crc"
  /\ qr.amount # <<>>
  /\ Parsed.success /\ ~Parsed.data[1].isValid
  /\ Untampered.data[1].isValid

(* ---------------- properties of scan_qr ---------------- *)

MockScheme == <<"m", "o", "c", "k", ":", "/", "/">>

\* C26: for an imageUrl "mock://" followed by p, scanPromptPayQR returns the
\* outcome of parsePromptPayQR(p), success with its data or failure with its
\* error, and fetches no image; every other URL that does not start with
\* http is rejected with 'Invalid image URL provided'.
C26_MockScheme ==
  scan.result # <<>>
    => IF startsWith(scan.imageUrl, MockScheme)
         THEN LET r == parsePromptPayQR(sliceFrom(scan.imageUrl,
                                                  Len(MockScheme)))
              IN /\ ~scan.fetched
                 /\ scan.result[1].success = r.success
                 /\ scan.result[1].promptPay = r.data
                 /\ scan.result[1].error = r.error
         ELSE ~startsWith(scan.imageUrl, <<"h", "t", "t", "p">>)
                => scan.result[1] = ScanFailure("Invalid image URL provided")

(* ---------------- properties of the offline authorization ---------------- *)

\* C27: verifyOfflinePayment returns valid = true exactly when the deadline
\* is not before floor(now_ms / 1000) and the recovered address equals the
\* claimed signer without regard to case; in every other case it returns
\* valid = false with an error; it always returns.
C27_OfflineVerification ==
  auth.result # <<>>
    => LET r == auth.result[1]
       IN /\ r.returns
          /\ r.valid <=> /\ auth.deadline >= auth.nowMs \div 1000
                          /\ ~auth.recovered.throws
                          /\ auth.claimedSigner # NoSigner
                          /\ toLowerCase(auth.recovered.address) =
                               toLowerCase(auth.claimedSigner)
          /\ ~r.valid => r.error # ""

C27_Witness ==
  /\ auth.result # <<>>
  /\ auth.result[1].valid
  /\ auth.deadline = auth.nowMs \div 1000
  /\ auth.recovered.address # auth.claimedSigner

(* ---------------- properties of the exchange services ---------------- *)

\* C28: every quote of the three services has fee.total = fee.network +
\* fee.service, amountCrypto = amountTHB / rate + fee.total, fee.network =
\* the network fee of the token / rate, fee.service = 0.005 * amountTHB /
\* rate, and expiresAt = createdAt + 180000.
C28_QuoteMath ==
  exchange.quote # <<>>
    => LET q == exchange.quote[1].quote
           rate == q.rate.rate
       IN /\ q.fee.total = RatAdd(q.fee.network, q.fee.service)
          /\ q.amountCrypto = RatAdd(RatDiv(q.amountTHB, rate), q.fee.total)
          /\ q.fee.network =
               RatDiv(Rat(NETWORK_FEE_ESTIMATES[q.token], 1), rate)
          /\ q.fee.service =
               RatDiv(RatMul(Rat(5, 1000), q.amountTHB), rate)
          /\ q.expiresAt = q.createdAt + 180000

\* each service has created a quote; the one at hand used a cached rate of
\* another source
C28_Witness ==
  /\ exchange.quote # <<>>
  /\ exchange.quote[1].service = "coingecko"
  /\ exchange.quote[1].quote.rate.source = "bitkub"
  /\ exchange.quote[1].quote.fee.service.num > 0

(* ---------------- properties of the drain gate ---------------- *)

\* the step calls processQueue: queueTransaction with the status ONLINE, or
\* a tick that sees the status become ONLINE
ProcessQueueInvoked ==
  \/ enqueued' # enqueued /\ networkStatus = "online"
  \/ networkStatus # "online" /\ networkStatus' = "online"

\* C29: at most one drain of processQueue is active at any moment, and a
\* processQueue call made while a drain is active returns at once: it reads
\* no queue rows, starts no item and leaves the running drain as it is.
C29_SingleFlight ==
  /\ [](drain.pc # "idle" => isProcessing)
  /\ [][(isProcessing /\ ProcessQueueInvoked)
          => /\ drain' = drain
             /\ attempts' = attempts
             /\ isProcessing']_vars

\* a drain is running, the status is ONLINE, and the queue holds a fresh row
\* that came in after the drain read its rows
C29_Witness ==
  /\ isProcessing /\ drain.pc # "idle"
  /\ networkStatus = "online"
  /\ \E r \in queue :
       /\ r.retry_count = 0
       /\ r.created_at >= drain.startedAt
       /\ \A i \in 1..Len(drain.rows) : drain.rows[i].id # r.id

\* C30: every change of the status from a value other than ONLINE to ONLINE
\* starts one drain of the ready rows, also while another drain is in
\* flight; a step in which the status stays ONLINE and nothing is queued
\* starts none.
C30_DrainOnReconnect ==
  [][/\ (/\ networkStatus # "online" /\ networkStatus' = "online"
          /\ ReadyRows(queue, orders, now) # {})
         => /\ attempts' = attempts + 1
            /\ drain'.idx = 1
            /\ drain'.startedAt = now
            /\ drain'.rows \in getReadyItems(queue, orders, now)
     /\ (/\ networkStatus = "online" /\ networkStatus' = "online"
          /\ enqueued' = enqueued /\ drain.pc = "idle")
         => attempts' = attempts]_vars

(* ---------------- properties of the periodic tick ---------------- *)

\* the queue row of item n, and whether processItem is running it
RowOf(n) == CHOOSE r \in queue : r.id = <<"item", n>>
InFlight(n) == drain.pc # "idle" /\ drain.rows[drain.idx].id = <<"item", n>>

\* the bound of the run leaves room for one more processItem run
WorkLeft == Cardinality(orders) + enqueued + attempts < MaxWork

\* C31: while the manager is started and the status stays ONLINE, a queued
\* item that is ready (its next_retry is not set or has passed) and is not
\* being run, such as one queued while another drain was active, is
\* eventually started by a later tick (as long as the run has room for it).
C31_TickStartsReadyItems ==
  \A n \in 1..MaxWork :
    (/\ InQueue(n) /\ IsReady(RowOf(n), now) /\ ~InFlight(n)
     /\ HasOrder(orders, RowOf(n).order_id)
     /\ networkStatus = "online")
      ~> (InFlight(n) \/ ~InQueue(n) \/ networkStatus # "online" \/ ~WorkLeft)

(* ---------------- properties of the retry schedule ---------------- *)

\* the step is the failure of the running processItem: broadcastTransaction
\* threw, waitForConfirmation returned false, or settle returned no success
FailedAttempt ==
  \/ drain.pc = "broadcast" /\ chain' = chain /\ drain' # drain
  \/ drain.pc = "confirm" /\ drain'.pc # "settle" /\ drain' # drain
  \/ drain.pc = "settle" /\ \E x \in settlements' \ settlements : ~x.success

\* the queue row of the running item before the step, and after it
RunningRow == drain.rows[drain.idx]
RunningRowNext == CHOOSE r \in queue' : r.id = RunningRow.id

\* C32: the delays for retry counts 1 to 4 are 5, 10, 20 and 40 seconds,
\* non-decreasing and at most 300000 ms, and after the k-th failed attempt
\* of an item (1 <= k <= 4) its retry count is k and its next_retry is the
\* failure time plus min(5000 * 2^(k-1), 300000).
C32_Backoff ==
  /\ [](/\ <<RetryDelay(1), RetryDelay(2), RetryDelay(3), RetryDelay(4)>> =
             <<5000, 10000, 20000, 40000>>
         /\ \A i \in 1..4 : RetryDelay(i) <= RetryDelay(i + 1)
         /\ \A j \in 1..8 : RetryDelay(j) <= 300000)
  /\ [][FailedAttempt
          => LET k == RunningRow.retry_count + 1
             IN k <= 4
                  => /\ RunningRowNext.retry_count = k
                     /\ RunningRowNext.next_retry =
                          now + Min(5000 * Pow(2, k - 1), 300000)]_vars

(* ---------------- properties of the stored orders ---------------- *)

\* C33: every stored order, in the order store of the tools and in the
\* orders table, whose status is SIGNED, PENDING, SETTLED or COMPLETED has
\* a signature.
C33_SignaturePresent ==
  /\ \A o \in orderStore :
       o.status \in {"signed", "pending", "settled", "completed"}
         => o.signature # NULL
  /\ \A r \in orders :
       r.status \in {"signed", "pending", "settled", "completed"}
         => r.signature_json # NULL

\* C34: every stored order whose status is PENDING, SETTLED or COMPLETED has
\* a txHash, also while broadcastTransaction is running or after it threw.
C34_TxHashPresent ==
  /\ \A o \in orderStore :
       o.status \in {"pending", "settled", "completed"} => o.txHash # NULL
  /\ \A r \in orders :
       r.status \in {"pending", "settled", "completed"} => r.tx_hash # NULL

\* C35: for every stored order completedAt is set exactly when the status
\* is COMPLETED, and a COMPLETED order has a settlementId.
C35_CompletedAt ==
  /\ \A o \in orderStore :
       /\ o.completedAt # NULL <=> o.status = "completed"
       /\ o.status = "completed" => o.settlementId # NULL
  /\ \A r \in orders :
       /\ r.completed_at # NULL <=> r.status = "completed"
       /\ r.status = "completed" => r.settlement_id # NULL

(* ---------------- properties of the sync events ---------------- *)

\* the positions of the events of one type among the events of the call
EventsOfType(type) == {i \in 1..Len(sync.events) : sync.events[i].type = type}

\* C36: a forceSync call that was not refused has emitted exactly one
\* sync_started, as its first event, and exactly one of sync_completed and
\* sync_failed, as its last event; its sync_progress events in between count
\* 1, 2, ... (up to total when the call completed), and total is the number
\* of items that were in the queue when the call started.
C36_SyncEvents ==
  /\ [](sync.last = "forceSync" /\ sync.events # <<>>
         => LET n == Len(sync.events)
                total == sync.events[1].total
            IN /\ EventsOfType("sync_started") = {1}
               /\ EventsOfType("sync_completed")
                    \cup EventsOfType("sync_failed") = {n}
               /\ \A i \in EventsOfType("sync_progress") :
                    /\ sync.events[i].processed = i - 1
                    /\ sync.events[i].total = total
               /\ sync.events[n].type = "sync_completed"
                    => Cardinality(EventsOfType("sync_progress")) = total)
  /\ [][sync'.runs # sync.runs /\ sync'.last = "forceSync"
          /\ sync'.events # <<>>
          => sync'.events[1].total = Cardinality(getAll(queue, orders))]_vars

(* ---------------- properties of the detector's aggregation ------------- *)

\* the endpoints whose ping succeeded in the last probe round
Succeeded == {e \in DOMAIN detector.results : detector.results[e] # <<>>}

\* the latencies of the successful probes of the last round, added up
RECURSIVE LatencySum(_)
LatencySum(es) ==
  IF es = {} THEN 0
  ELSE LET e == CHOOSE x \in es : TRUE
       IN detector.results[e][1] + LatencySum(es \ {e})

\* the average latency of the successful probes is above 2000 ms
SlowRound == LatencySum(Succeeded) > 2000 * Cardinality(Succeeded)

\* ceil(n / 2) for the n endpoints
HalfOfEndpoints == (Endpoints + 1) \div 2

\* C37: after a probe round the status is OFFLINE iff no probe succeeded,
\* WEAK iff at least one succeeded and (fewer than ceil(n/2) succeeded or the
\* average latency of the successful probes is above 2000 ms), and ONLINE
\* otherwise.
C37_Aggregation ==
  detector.checks > 0
    => LET s == Cardinality(Succeeded)
           weak == s >= 1 /\ (s < HalfOfEndpoints \/ SlowRound)
       IN /\ detector.status = detector.computed
          /\ detector.computed = "offline" <=> s = 0
          /\ detector.computed = "weak" <=> weak
          /\ detector.computed = "online" <=> s # 0 /\ ~weak

\* a round in which most probes succeeded, one of them fast, and the status
\* is WEAK by the average latency
C37_Witness ==
  /\ detector.checks > 0
  /\ Cardinality(Succeeded) >= HalfOfEndpoints
  /\ \E e \in Succeeded : detector.results[e][1] < 2000
  /\ SlowRound
  /\ detector.computed = "weak"

(* ---------------- termination of the QR parser ---------------- *)

\* C38: every parsePromptPayQR call returns, whatever the payload: also when
\* the length characters of a record are not digits or are a negative
\* number such as "-4".
C38_ParserTerminates == qr.result # <<>> => qr.result[1].returns

(* ---------------- a quote is paid once ---------------- *)

\* the orders created from a quote whose transaction was handed to
\* broadcastTransaction
BroadcastOrders(quoteId) ==
  {o \in orderStore : /\ o.quoteId = quoteId
                      /\ \E i \in 1..Len(sent) : sent[i].order = o.id}

\* C39: whatever the interleaving of the confirm_payment calls, at most one
\* order of a quote reaches broadcast.
C39_QuotePaysOnce ==
  \A quoteId \in QuoteIds : Cardinality(BroadcastOrders(quoteId)) <= 1

(* ---------------- the retry state of a queue row ---------------- *)

\* C40: the retry state is kept on the item's own queue row: a failed
\* attempt short of the last one leaves the row with retry_count one larger
\* and a next_retry in the future, getReadyItems returns no row before its
\* next_retry, and retry_count stays within 0..maxRetries.
C40_RetryStatePersisted ==
  /\ [](\A r \in queue : r.retry_count \in 0..maxRetries)
  /\ [][(drain.pc = "idle" /\ drain'.pc # "idle")
          => \A i \in 1..Len(drain'.rows) :
               IsReady(drain'.rows[i], now)]_vars
  /\ [][(FailedAttempt /\ RunningRow.retry_count + 1 < maxRetries)
          => /\ \E r \in queue' : r.id = RunningRow.id
             /\ RunningRowNext.retry_count = RunningRow.retry_count + 1
             /\ RunningRowNext.next_retry # NULL
             /\ RunningRowNext.next_retry > now']_vars

====
